---------------------------- MODULE Spec2Model ----------------------------
(***************************************************************************)
(* A model of the bit-stream library (boost/bitstream/iob.hpp,             *)
(* istream.hpp, ostream.hpp): one bitbuf over a caller-owned byte region,  *)
(* an istream and an ostream that both hold a pointer to it.               *)
(*                                                                         *)
(* A bitfield (uintmax_t) and a byte (unsigned char) are modelled as the   *)
(* set of the positions of their 1 bits, position 0 being the least        *)
(* significant bit: a bitfield is a subset of 0..FieldWidth-1 and a byte a *)
(* subset of 0..CharBit-1.  Shifts, masks and the truncation of an         *)
(* assignment to a narrower type are computed on these sets exactly as the *)
(* C++ operators compute them on the integers.                             *)
(***************************************************************************)
EXTENDS Integers, Sequences, FiniteSets, TLC

\* ------------------------------------------------------------------------
\* Program constants
\* ------------------------------------------------------------------------

\* CHAR_BIT: bits in one unsigned char of the byte region.
CharBit == 8

\* Width in bits of bitfield (typedef uintmax_t bitfield).
FieldWidth == 64

\* std::streampos(-1), the invalid position seekoff and seekpos return.
NPOS == -1

\* ------------------------------------------------------------------------
\* Bounds of the model
\* ------------------------------------------------------------------------

\* Bytes in the region of the field-level specification (SpecField).
WideBytes == 9

\* Largest start cursor the field-level specification draws.
MaxCursor == 9

\* Bytes in the largest region of the stream specification (Spec).
MaxBytes == 2

\* Largest bit count handed to read, write and ignore in Spec.
MaxBits == 9

\* Largest distance of a relative seek in Spec.
MaxSeek == 1

\* Largest alignment handed to aligng and alignp in Spec, CHAR_BIT aside.
MaxAlign == 4

\* Largest repeat count in Spec.
MaxRepeat == 2

\* Elements in the largest container extracted or inserted in Spec.
MaxSize == 2

\* Operations performed on the streams in one behaviour of Spec.
MaxOps == 2

\* The longest chain of insertions or extractions.
MaxFields == 2

\* ------------------------------------------------------------------------
\* Unsigned integer arithmetic on bit sets
\* ------------------------------------------------------------------------

AllOnes == 0 .. (FieldWidth - 1)

ByteOnes == 0 .. (CharBit - 1)

\* x << k on a bitfield, k < FieldWidth: bits shifted out at the top are lost.
Shl(x, k) == {i + k : i \in {j \in x : j + k < FieldWidth}}

\* x >> k on a bitfield.
Shr(x, k) == {i - k : i \in {j \in x : j >= k}}

\* ~x on a bitfield.
Not(x) == AllOnes \ x

\* Conversion of a bitfield to unsigned char keeps the low CHAR_BIT bits.
ToByte(x) == x \cap ByteOnes

\* The bitfield of a natural number below 2^31.
RECURSIVE BitsOfFrom(_, _)
BitsOfFrom(x, i) ==
    IF x = 0 THEN {}
    ELSE (IF x % 2 = 1 THEN {i} ELSE {}) \cup BitsOfFrom(x \div 2, i + 1)

BitsOf(x) == BitsOfFrom(x, 0)

\* F applied to the value of x: the result of a call is computed once and
\* then used, as the return value of a C++ call is.
Bind(x, F(_)) == CHOOSE y \in {F(v) : v \in {x}} : TRUE

\* ------------------------------------------------------------------------
\* State
\* ------------------------------------------------------------------------

VARIABLES
    m_buffer,   \* bitbuf::m_buffer: the byte region, byte index -> byte
    m_gptr,     \* bitbuf::m_gptr: bit position of the next bit to read
    m_egptr,    \* bitbuf::m_egptr: position just past the last readable bit
    m_eback,    \* bitbuf::m_eback: first readable bit position
    m_pptr,     \* bitbuf::m_pptr: bit position of the next bit to write
    m_epptr,    \* bitbuf::m_epptr: position just past the last writable bit
    m_pbase,    \* bitbuf::m_pbase: first writable bit position
    i_bitbuf,   \* istream's iob::m_bitbuf: "bb" or "null"
    i_state,    \* istream's iob::m_state, a subset of {"eof","fail","bad"}
    m_gcount,   \* istream::m_gcount
    m_gvalue,   \* istream::m_gvalue
    i_repeat,   \* istream::m_repeat
    o_bitbuf,   \* ostream's iob::m_bitbuf: "bb" or "null"
    o_state,    \* ostream's iob::m_state
    o_repeat,   \* ostream::m_repeat
    last,       \* the operation just performed, its arguments, the state
                \* it started from and what it returned
    ops         \* number of operations performed so far

bufvars == <<m_buffer, m_gptr, m_egptr, m_eback, m_pptr, m_epptr, m_pbase>>
ivars == <<i_bitbuf, i_state, m_gcount, m_gvalue, i_repeat>>
ovars == <<o_bitbuf, o_state, o_repeat>>
vars == <<bufvars, ivars, ovars, last, ops>>

\* The bitbuf object as one value, for the operators below.
BB == [buffer |-> m_buffer, gptr |-> m_gptr, egptr |-> m_egptr,
       eback |-> m_eback, pptr |-> m_pptr, epptr |-> m_epptr,
       pbase |-> m_pbase]

\* ------------------------------------------------------------------------
\* bitbuf (iob.hpp)
\* ------------------------------------------------------------------------

\* An in_avail that counts from the start of the get area.
in_avail_from_eback(bb) == bb.egptr - bb.eback

\* bitbuf::in_avail
in_avail(bb) == bb.egptr - bb.gptr

\* An assure_valid_get_pointer that takes any position.
assure_valid_get_pointer_any(bb, position) ==
    [bb |-> [bb EXCEPT !.gptr = position], ret |-> position]

\* bitbuf::assure_valid_get_pointer: the position becomes the get pointer
\* iff it lies in [eback, egptr]; otherwise NPOS and no change.
assure_valid_get_pointer(bb, position) ==
    IF position < bb.eback \/ position > bb.egptr
    THEN [bb |-> bb, ret |-> NPOS]
    ELSE [bb |-> [bb EXCEPT !.gptr = position], ret |-> position]

\* bitbuf::pbase returns 0, not m_pbase.
pbase(bb) == 0

\* bitbuf::assure_valid_put_pointer
assure_valid_put_pointer(bb, position) ==
    IF position < pbase(bb) \/ position > bb.epptr
    THEN [bb |-> bb, ret |-> NPOS]
    ELSE [bb |-> [bb EXCEPT !.pptr = position], ret |-> position]

\* A seekoff that moves the selected cursors only when every one of them
\* can move.
seekoff_together(bb, offset, way, which) ==
    LET base_g == CASE way = "beg" -> bb.eback
                    [] way = "cur" -> bb.gptr
                    [] OTHER -> bb.egptr
        base_p == CASE way = "beg" -> pbase(bb)
                    [] way = "cur" -> bb.pptr
                    [] OTHER -> bb.epptr
        g == assure_valid_get_pointer(bb, base_g + offset)
        p == assure_valid_put_pointer(bb, base_p + offset)
    IN IF which = {"in"} THEN g
       ELSE IF which = {"out"} THEN p
       ELSE IF g.ret = NPOS \/ p.ret = NPOS THEN [bb |-> bb, ret |-> NPOS]
       ELSE [bb |-> [bb EXCEPT !.gptr = g.ret, !.pptr = p.ret], ret |-> p.ret]

\* bitbuf::seekoff.  way is "beg", "cur" or "end"; which is a subset of
\* {"in", "out"}.  The out branch runs after the in branch and overwrites
\* the position returned.
seekoff(bb, offset, way, which) ==
    LET r0 == [bb |-> bb, ret |-> NPOS]
        r1 == IF "in" \in which
              THEN CASE way = "beg" ->
                          assure_valid_get_pointer(bb, bb.eback + offset)
                     [] way = "cur" ->
                          assure_valid_get_pointer(bb, bb.gptr + offset)
                     [] way = "end" ->
                          assure_valid_get_pointer(bb, bb.egptr + offset)
                     [] OTHER -> r0
              ELSE r0
        r2 == IF "out" \in which
              THEN CASE way = "beg" ->
                          assure_valid_put_pointer(r1.bb, pbase(r1.bb) + offset)
                     [] way = "cur" ->
                          assure_valid_put_pointer(r1.bb, r1.bb.pptr + offset)
                     [] way = "end" ->
                          assure_valid_put_pointer(r1.bb, r1.bb.epptr + offset)
                     [] OTHER -> r1
              ELSE r1
    IN r2

\* bitbuf::seekpos
seekpos(bb, position, which) ==
    LET r0 == [bb |-> bb, ret |-> NPOS]
        r1 == IF "in" \in which
              THEN assure_valid_get_pointer(bb, position) ELSE r0
        r2 == IF "out" \in which
              THEN assure_valid_put_pointer(r1.bb, position) ELSE r1
    IN r2

\* bitbuf::pubseekoff and bitbuf::pubseekpos forward to the virtuals.
pubseekoff(bb, offset, way, which) == seekoff(bb, offset, way, which)

pubseekpos(bb, position, which) == seekpos(bb, position, which)

\* A gbump that leaves the get pointer where it is.
gbump_stuck(bb, offset) == bb

\* A pbump that leaves the put pointer where it is.
pbump_stuck(bb, offset) == bb

\* bitbuf::gbump and bitbuf::pbump
gbump(bb, offset) == seekoff(bb, offset, "cur", {"in"}).bb

pbump(bb, offset) == seekoff(bb, offset, "cur", {"out"}).bb

\* bitbuf::get_bits_callback: concatenate byte_count bytes starting at
\* byte index base, most significant first, into a bitfield (each step
\* shifts the accumulator left by CHAR_BIT within FieldWidth bits), then
\* mask and shift right.
RECURSIVE pre_mask_value(_, _, _)
pre_mask_value(buffer, base, count) ==
    IF count = 0 THEN {}
    ELSE Shl(pre_mask_value(buffer, base, count - 1), CharBit)
            \cup buffer[base + count - 1]

get_bits_callback(mask, shift_amount, byte_count, buffer, base) ==
    Shr(pre_mask_value(buffer, base, byte_count) \cap mask, shift_amount)

\* bitbuf::put_bits_callback, the loop from i = byte_count - 1 down to 0;
\* mask is already inverted and value already shifted left.
RECURSIVE put_bits_loop(_, _, _, _, _)
put_bits_loop(value, mask, i, buffer, base) ==
    LET cleared == ToByte(buffer[base + i] \cap mask)
        merged == ToByte(cleared \cup value)
        buffer1 == [buffer EXCEPT ![base + i] = merged]
    IN IF i = 0 THEN buffer1
       ELSE put_bits_loop(Shr(value, CharBit), Shr(mask, CharBit), i - 1,
                          buffer1, base)

put_bits_callback(value, mask, shift_amount, byte_count, buffer, base) ==
    put_bits_loop(Shl(value, shift_amount), Not(mask), byte_count - 1,
                  buffer, base)

\* The right-justified mask of size ones: all ones shifted left by
\* size - 1 and then by 1, inverted.
field_mask(size) == Not(Shl(Shl(AllOnes, size - 1), 1))

\* shift_amount of xsprocessn_nobump
shift_amount_of(size, ptr) ==
    (CharBit - ((size + (ptr % CharBit)) % CharBit)) % CharBit

\* A byte count that rounds up once too often.
byte_count_padded(size, ptr) ==
    (size + shift_amount_of(size, ptr) + CharBit) \div CharBit

\* byte_count of xsprocessn_nobump
byte_count_of(size, ptr) ==
    (size + shift_amount_of(size, ptr) + CharBit - 1) \div CharBit

\* The bytes of the region the callbacks index: byte_pointer[i] for i in
\* 0 .. byte_count - 1, byte_pointer being the byte of the cursor.
bytes_processed(size, ptr) ==
    {(ptr \div CharBit) + i : i \in 0 .. (byte_count_of(size, ptr) - 1)}

\* bitbuf::xsprocessn_nobump with process_bits_ "get" or "put": the bits
\* processed, the value delivered and the region afterwards.
xsprocessn_nobump(value, size, ptr, eptr, buffer, process_bits_) ==
    IF size > 0 /\ size <= eptr - ptr
    THEN LET mask == Shl(field_mask(size), shift_amount_of(size, ptr))
             base == ptr \div CharBit
         IN IF process_bits_ = "get"
            THEN [ret |-> size,
                  value |-> get_bits_callback(mask, shift_amount_of(size, ptr),
                                byte_count_of(size, ptr), buffer, base),
                  buffer |-> buffer]
            ELSE [ret |-> size,
                  value |-> Shl(value, shift_amount_of(size, ptr)),
                  buffer |-> put_bits_callback(value, mask,
                                shift_amount_of(size, ptr),
                                byte_count_of(size, ptr), buffer, base)]
    ELSE [ret |-> 0, value |-> value, buffer |-> buffer]

\* bitbuf::xsgetn_nobump
xsgetn_nobump(bb, value, size) ==
    xsprocessn_nobump(value, size, bb.gptr, bb.egptr, bb.buffer, "get")

\* bitbuf::xsputn_nobump
xsputn_nobump(bb, value, size) ==
    xsprocessn_nobump(value, size, bb.pptr, bb.epptr, bb.buffer, "put")

\* bitbuf::xsgetn: read, then advance the get pointer by the bits read.
xsgetn(bb, value, size) ==
    Bind(xsgetn_nobump(bb, value, size), LAMBDA r :
       [bb |-> gbump(bb, r.ret), value |-> r.value, ret |-> r.ret])

\* bitbuf::xsputn: write, then advance the put pointer by the bits written.
xsputn(bb, value, size) ==
    Bind(xsputn_nobump(bb, value, size), LAMBDA r :
       [bb |-> pbump([bb EXCEPT !.buffer = r.buffer], r.ret), ret |-> r.ret])

\* bitbuf::sgetn and bitbuf::sputn forward to the virtuals.
sgetn(bb, value, size) == xsgetn(bb, value, size)

sputn(bb, value, size) == xsputn(bb, value, size)

\* bitbuf::sbumpb
sbumpb(bb, value) ==
    Bind(sgetn(bb, value, 1), LAMBDA r :
       [bb |-> r.bb, value |-> r.value, ret |-> (r.ret = 1)])


\* bitbuf::sgetb: sbumpb, then a seek one bit back when sbumpb did NOT
\* succeed.
sgetb(bb, value) ==
    Bind(sbumpb(bb, value), LAMBDA r :
       IF ~r.ret
       THEN [bb |-> pubseekoff(r.bb, -1, "cur", {"in"}).bb,
             value |-> r.value, ret |-> r.ret]
       ELSE r)

\* bitbuf::pbackfail and bitbuf::overflow: the defaults, which fail.
pbackfail == FALSE

overflow == FALSE

\* bitbuf::atgptrb(std::streamoff): the bit at gptr + offset, 0 when that
\* position is out of range; the get pointer is moved there and back.
atgptrb(bb, offset) ==
    Bind(seekoff(bb, offset, "cur", {"in"}), LAMBDA r :
       IF r.ret # NPOS
       THEN xsgetn_nobump(r.bb, {}, 1).value
       ELSE {})

\* A sputbackb that does not compare the bit.
sputbackb_unchecked(bb, b) ==
    IF bb.gptr = NPOS \/ bb.gptr = bb.eback
    THEN [bb |-> bb, ret |-> pbackfail]
    ELSE LET bb1 == gbump(bb, -1)
         IN [bb |-> bb1, ret |-> (bb1.gptr # NPOS)]

\* bitbuf::sputbackb
sputbackb(bb, b) ==
    IF bb.gptr = NPOS \/ bb.gptr = bb.eback \/ b # atgptrb(bb, -1)
    THEN [bb |-> bb, ret |-> pbackfail]
    ELSE LET bb1 == gbump(bb, -1)
         IN [bb |-> bb1, ret |-> (bb1.gptr # NPOS)]

\* bitbuf::sputb: the bit written is b & 1.
sputb(bb, b) ==
    IF bb.pptr = NPOS \/ bb.pptr = bb.epptr
    THEN [bb |-> bb, ret |-> overflow]
    ELSE LET intra_byte_bit_offset == bb.pptr % CharBit
             shift_amount ==
                 (CharBit - ((1 + intra_byte_bit_offset) % CharBit)) % CharBit
             mask == Not({shift_amount})
             index == bb.pptr \div CharBit
             destination_with_cleared_bits ==
                 ToByte(bb.buffer[index] \cap mask)
             source_with_shifted_bits ==
                 ToByte(Shl(b \cap {0}, shift_amount))
             buffer1 == [bb.buffer EXCEPT ![index] =
                 destination_with_cleared_bits \cup source_with_shifted_bits]
         IN [bb |-> pbump([bb EXCEPT !.buffer = buffer1], 1), ret |-> TRUE]

\* ------------------------------------------------------------------------
\* iob (iob.hpp): the state mask as the set of its bits
\* ------------------------------------------------------------------------

StateBits == {"eof", "fail", "bad"}

\* iob::good
good(state) == state = {}

\* iob::eof
eof(state) == "eof" \in state

\* iob::bad
bad(state) == "bad" \in state

\* A fail that looks at failbit alone.
fail_failbit_only(state) == "fail" \in state

\* iob::fail
fail(state) == "fail" \in state \/ bad(state)

\* A truthiness that asks for a good stream.
truthy_when_good(state) == good(state)

\* iob::operator bool and iob::operator void *
truthy(state) == ~fail(state)

\* A setstate that assigns the flags instead of adding them.
setstate_assigning(state, bits) == bits

\* iob::setstate
setstate(state, bits) == state \cup bits

\* iob::clear
clear(state, bits) == bits

\* An init that reports a null handle as a failure, not as bad.
init_failing(bitbuf) == IF bitbuf = "null" THEN {"fail"} ELSE {}

\* iob::init: the state a handle gives
init(bitbuf) == IF bitbuf = "null" THEN {"bad"} ELSE {}

\* An eofbit that sets nothing.
eofbit_dropped(state) == state

\* iob::failbit, iob::eofbit, iob::badbit
failbit(state) == state \cup {"fail"}

eofbit(state) == state \cup {"eof"}

badbit(state) == state \cup {"bad"}

\* ------------------------------------------------------------------------
\* istream (istream.hpp).  An istream with the bitbuf it points to is the
\* record [bb, state, gcount, gvalue, repeat].
\* ------------------------------------------------------------------------

IS == [bb |-> BB, state |-> i_state, gcount |-> m_gcount,
       gvalue |-> m_gvalue, repeat |-> i_repeat]

\* A read that leaves the value and the state alone when it fails.
read_quiet(s, value, bits) ==
    Bind(sgetn(s.bb, value, bits), LAMBDA r :
       LET s1 == [s EXCEPT !.bb = r.bb]
       IN IF r.ret # bits
          THEN [s |-> [s1 EXCEPT !.gcount = 0], value |-> value]
          ELSE LET st1 == IF in_avail(r.bb) = 0 THEN eofbit(s.state)
                          ELSE s.state
               IN [s |-> [s1 EXCEPT !.state = st1, !.gcount = r.ret,
                                    !.gvalue = r.value],
                   value |-> r.value])

\* istream::read.  value is the caller's variable: it keeps what the caller
\* had in it when no bit is transferred and the read does not fail.
read(s, value, bits) ==
    Bind(sgetn(s.bb, value, bits), LAMBDA r :
       LET s1 == [s EXCEPT !.bb = r.bb]
       IN IF r.ret # bits
          THEN LET st1 == IF in_avail(r.bb) < bits THEN eofbit(s.state)
                          ELSE s.state
               IN [s |-> [s1 EXCEPT !.state = failbit(st1), !.gcount = 0,
                                    !.gvalue = {}],
                   value |-> {}]
          ELSE LET st1 == IF in_avail(r.bb) = 0 THEN eofbit(s.state)
                          ELSE s.state
               IN [s |-> [s1 EXCEPT !.state = st1, !.gcount = r.ret,
                                    !.gvalue = r.value],
                   value |-> r.value])

\* istream::readsome and istream::get(bitfield &, streamsize)
readsome(s, value, bits) == read(s, value, bits)

get_n(s, value, bits) == read(s, value, bits)

\* A get() that reports the end with eof alone.
get_eof_only(s) ==
    Bind(sbumpb(s.bb, s.gvalue), LAMBDA r :
       LET s1 == [s EXCEPT !.bb = r.bb, !.gvalue = r.value]
       IN IF ~r.ret
          THEN [s1 EXCEPT !.state = eofbit(s.state), !.gcount = 0]
          ELSE [s1 EXCEPT !.gcount = 1])

\* istream::get(): m_gvalue is handed to sbumpb, which leaves it as it was
\* when no bit is available.
get(s) ==
    Bind(sbumpb(s.bb, s.gvalue), LAMBDA r :
       LET s1 == [s EXCEPT !.bb = r.bb, !.gvalue = r.value]
       IN IF ~r.ret
          THEN [s1 EXCEPT !.state = eofbit(failbit(s.state)), !.gcount = 0]
          ELSE [s1 EXCEPT !.gcount = 1])

\* An ignore that skips what is left when the count is too large.
ignore_partial(s, bits) ==
    Bind(pubseekoff(s.bb, bits, "cur", {"in"}), LAMBDA r :
       IF r.ret = NPOS
       THEN [s EXCEPT !.bb = [r.bb EXCEPT !.gptr = r.bb.egptr],
                      !.state = eofbit(s.state), !.gcount = 0]
       ELSE [s EXCEPT !.bb = r.bb, !.gcount = bits])

\* An ignore that reports the bits asked for also when the seek failed.
ignore_counting(s, bits) ==
    Bind(pubseekoff(s.bb, bits, "cur", {"in"}), LAMBDA r :
       IF r.ret = NPOS
       THEN [s EXCEPT !.bb = r.bb, !.state = eofbit(s.state), !.gcount = bits]
       ELSE [s EXCEPT !.bb = r.bb, !.gcount = bits])

\* istream::ignore
ignore(s, bits) ==
    Bind(pubseekoff(s.bb, bits, "cur", {"in"}), LAMBDA r :
       IF r.ret = NPOS
       THEN [s EXCEPT !.bb = r.bb, !.state = eofbit(s.state), !.gcount = 0]
       ELSE [s EXCEPT !.bb = r.bb, !.gcount = bits])

\* istream::tellg
tellg(s) == pubseekoff(s.bb, 0, "cur", {"in"}).ret

\* A seekg that clears eof before it seeks.
seekg_clearing_eof(s, position) ==
    Bind(pubseekpos(s.bb, position, {"in"}), LAMBDA r :
       IF r.ret = NPOS
       THEN [s EXCEPT !.bb = r.bb, !.state = failbit(s.state \ {"eof"})]
       ELSE [s EXCEPT !.bb = r.bb, !.state = s.state \ {"eof"}])

\* istream::seekg(streampos)
seekg(s, position) ==
    IF eof(s.state)
    THEN [s EXCEPT !.state = failbit(s.state)]
    ELSE Bind(pubseekpos(s.bb, position, {"in"}), LAMBDA r :
            IF r.ret = NPOS
            THEN [s EXCEPT !.bb = r.bb, !.state = failbit(s.state)]
            ELSE [s EXCEPT !.bb = r.bb])

\* A relative seekg that does not report a refused seek.
seekg_off_silent(s, offset, dir) ==
    IF eof(s.state)
    THEN [s EXCEPT !.state = failbit(s.state)]
    ELSE Bind(pubseekoff(s.bb, offset, dir, {"in"}), LAMBDA r :
            [s EXCEPT !.bb = r.bb])

\* istream::seekg(streamoff, seek_dir)
seekg_off(s, offset, dir) ==
    IF eof(s.state)
    THEN [s EXCEPT !.state = failbit(s.state)]
    ELSE Bind(pubseekoff(s.bb, offset, dir, {"in"}), LAMBDA r :
            IF r.ret = NPOS
            THEN [s EXCEPT !.bb = r.bb, !.state = failbit(s.state)]
            ELSE [s EXCEPT !.bb = r.bb])

\* An aligng that rounds the cursor down.
aligng_down(s, bit) ==
    LET s1 == IF good(s.state) /\ bit > 0
              THEN seekg(s, (tellg(s) \div bit) * bit)
              ELSE s
    IN [s1 EXCEPT !.gcount = 0]

\* istream::aligng
aligng(s, bit) ==
    LET s1 == IF good(s.state) /\ bit > 0
              THEN seekg(s, ((tellg(s) + bit - 1) \div bit) * bit)
              ELSE s
    IN [s1 EXCEPT !.gcount = 0]

\* istream::repeat(size_t)
set_repeat(s, repeat) == [s EXCEPT !.repeat = repeat]

\* istream::peek
peek(s) ==
    Bind(sgetb(s.bb, s.gvalue), LAMBDA r :
       LET s1 == [s EXCEPT !.bb = r.bb, !.gvalue = r.value]
       IN IF ~r.ret
          THEN [s1 EXCEPT !.state = eofbit(s.state), !.gcount = 0]
          ELSE [s1 EXCEPT !.gcount = 1])

\* istream::putback (the branch that is compiled)
putback(s, value) ==
    LET s1 == IF eof(s.state)
              THEN [s EXCEPT !.state = failbit(s.state)]
              ELSE Bind(sputbackb(s.bb, value), LAMBDA r :
                      IF ~r.ret
                      THEN [s EXCEPT !.bb = r.bb, !.state = badbit(s.state)]
                      ELSE [s EXCEPT !.bb = r.bb])
    IN [s1 EXCEPT !.gcount = 0]

\* An unget that does not report a cursor already at the beginning.
unget_silent(s) ==
    Bind(pubseekoff(s.bb, -1, "cur", {"in"}), LAMBDA r :
       [s EXCEPT !.bb = r.bb, !.gcount = 0])

\* istream::unget
unget(s) ==
    Bind(pubseekoff(s.bb, -1, "cur", {"in"}), LAMBDA r :
       LET s1 == [s EXCEPT !.bb = r.bb, !.gcount = 0]
       IN IF r.ret = NPOS
          THEN [s1 EXCEPT !.state = failbit(s.state)]
          ELSE s1)

\* operator>>(istream &, bool &): the local value is uninitialized, junk
\* stands for whatever it holds.
extract_bool(s, junk) ==
    Bind(read(s, junk, 1), LAMBDA r :
       [s |-> r.s, value |-> IF r.value # {} THEN {0} ELSE {}])

\* operator>>(istream &, const bool &)
extract_const_bool(s, b, junk) ==
    Bind(extract_bool(s, junk), LAMBDA r :
       IF b # r.value
       THEN [s |-> [r.s EXCEPT !.state = failbit(r.s.state)], value |-> r.value]
       ELSE r)

\* operator>>(istream &, std::bitset<N> &) and operator>>(istream &, T &)
\* with N or sizeof(T) * CHAR_BIT as width: the value read, converted to
\* the destination type.
extract_scalar(s, width, junk) ==
    Bind(read(s, junk, width), LAMBDA r :
       [s |-> r.s, value |-> r.value \cap (0 .. (width - 1))])

\* A const extraction that reports a mismatch as bad.
extract_const_scalar_bad(s, width, b, junk) ==
    Bind(extract_scalar(s, width, junk), LAMBDA r :
       IF b # r.value
       THEN [s |-> [r.s EXCEPT !.state = badbit(r.s.state)], value |-> r.value]
       ELSE r)

\* operator>>(istream &, const std::bitset<N> &) and
\* operator>>(istream &, const T &)
extract_const_scalar(s, width, b, junk) ==
    Bind(extract_scalar(s, width, junk), LAMBDA r :
       IF b # r.value
       THEN [s |-> [r.s EXCEPT !.state = failbit(r.s.state)], value |-> r.value]
       ELSE r)

\* ibs >> v for one element of a container: a bool (width 1) or an
\* unsigned integer of width bits.
extract_element(s, width, junk) ==
    IF width = 1 THEN extract_bool(s, junk) ELSE extract_scalar(s, width, junk)

\* An element loop that stops at the first element that cannot be read.
RECURSIVE extract_elements_stopping(_, _, _, _)
extract_elements_stopping(s, width, count, junk) ==
    IF count = 0 \/ in_avail(s.bb) < width THEN [s |-> s, value |-> <<>>]
    ELSE Bind(extract_element(s, width, junk), LAMBDA r :
            Bind(extract_elements_stopping(r.s, width, count - 1, junk),
                 LAMBDA rest :
                    [s |-> rest.s, value |-> <<r.value>> \o rest.value]))

\* The loop of operator>>(istream &, C &) over count elements: every
\* element is extracted, whatever the state of the stream.
RECURSIVE extract_elements(_, _, _, _)
extract_elements(s, width, count, junk) ==
    IF count = 0 THEN [s |-> s, value |-> <<>>]
    ELSE Bind(extract_element(s, width, junk), LAMBDA r :
            Bind(extract_elements(r.s, width, count - 1, junk), LAMBDA rest :
               [s |-> rest.s, value |-> <<r.value>> \o rest.value]))

\* An extraction that uses the repeat count up.
extract_container_consuming(s, width, size, junk) ==
    Bind(extract_elements(s, width,
                          IF s.repeat = 0 THEN size ELSE s.repeat, junk),
         LAMBDA r : [r EXCEPT !.s.repeat = 0])

\* An extraction that keeps the size of the container whatever repeat() is.
extract_container_sized(s, width, size, junk) ==
    extract_elements(s, width, size, junk)

\* operator>>(istream &, C &), C with resize(): the container is resized
\* to repeat() unless that is 0.
extract_container(s, width, size, junk) ==
    extract_elements(s, width, IF s.repeat = 0 THEN size ELSE s.repeat, junk)

\* An extraction into a fixed-size container that lets repeat() decide.
extract_array_repeating(s, width, size, junk) ==
    extract_elements(s, width, IF s.repeat = 0 THEN size ELSE s.repeat, junk)

\* operator>>(istream &, C &), C without resize()
extract_array(s, width, size, junk) ==
    extract_elements(s, width, size, junk)

\* A const-container extraction that stops at the first element.
extract_const_container_first(s, width, c, junk) ==
    IF c = <<>> THEN [s |-> s, value |-> <<>>]
    ELSE Bind(IF width = 1 THEN extract_const_bool(s, Head(c), junk)
              ELSE extract_const_scalar(s, width, Head(c), junk), LAMBDA r :
            [s |-> r.s, value |-> <<r.value>>])

\* operator>>(istream &, const C &): ibs >> *it for every element of c.
RECURSIVE extract_const_container(_, _, _, _)
extract_const_container(s, width, c, junk) ==
    IF c = <<>> THEN [s |-> s, value |-> <<>>]
    ELSE Bind(IF width = 1 THEN extract_const_bool(s, Head(c), junk)
              ELSE extract_const_scalar(s, width, Head(c), junk), LAMBDA r :
            Bind(extract_const_container(r.s, width, Tail(c), junk),
                 LAMBDA rest :
                    [s |-> rest.s, value |-> <<r.value>> \o rest.value]))

\* ------------------------------------------------------------------------
\* ostream (ostream.hpp).  An ostream with the bitbuf it points to is the
\* record [bb, state, repeat].
\* ------------------------------------------------------------------------

OS == [bb |-> BB, state |-> o_state, repeat |-> o_repeat]

\* A write that does not look at the state of the stream.
write_unguarded(s, value, bits) ==
    Bind(sputn(s.bb, value, bits), LAMBDA r :
       IF r.ret = 0
       THEN [s EXCEPT !.bb = r.bb, !.state = badbit(s.state)]
       ELSE [s EXCEPT !.bb = r.bb])

\* ostream::write
write(s, value, bits) ==
    IF good(s.state)
    THEN Bind(sputn(s.bb, value, bits), LAMBDA r :
            IF r.ret = 0
            THEN [s EXCEPT !.bb = r.bb, !.state = badbit(s.state)]
            ELSE [s EXCEPT !.bb = r.bb])
    ELSE s

\* ostream::put
put(s, value) ==
    IF good(s.state)
    THEN Bind(sputb(s.bb, value), LAMBDA r :
            IF ~r.ret
            THEN [s EXCEPT !.bb = r.bb, !.state = failbit(s.state)]
            ELSE [s EXCEPT !.bb = r.bb])
    ELSE s

\* ostream::ignore
o_ignore(s, bits) ==
    Bind(pubseekoff(s.bb, bits, "cur", {"out"}), LAMBDA r :
       IF r.ret = NPOS
       THEN [s EXCEPT !.bb = r.bb, !.state = eofbit(s.state)]
       ELSE [s EXCEPT !.bb = r.bb])

\* ostream::tellp
tellp(s) ==
    IF fail(s.state) THEN NPOS ELSE pubseekoff(s.bb, 0, "cur", {"out"}).ret

\* ostream::seekp(streampos): pubseekpos is called without the open mode,
\* whose default is in | out.
seekp(s, position) ==
    IF ~fail(s.state)
    THEN Bind(pubseekpos(s.bb, position, {"in", "out"}), LAMBDA r :
            IF r.ret = NPOS
            THEN [s EXCEPT !.bb = r.bb, !.state = failbit(s.state)]
            ELSE [s EXCEPT !.bb = r.bb])
    ELSE s

\* ostream::seekp(streamoff, seek_dir)
seekp_off(s, offset, dir) ==
    IF ~fail(s.state)
    THEN Bind(pubseekoff(s.bb, offset, dir, {"out"}), LAMBDA r :
            IF r.ret = NPOS
            THEN [s EXCEPT !.bb = r.bb, !.state = failbit(s.state)]
            ELSE [s EXCEPT !.bb = r.bb])
    ELSE s

\* ostream::alignp
alignp(s, bit) ==
    IF good(s.state) /\ bit > 0
    THEN seekp(s, ((tellp(s) + bit - 1) \div bit) * bit)
    ELSE s

\* ostream::repeat(size_t)
o_set_repeat(s, repeat) == [s EXCEPT !.repeat = repeat]

\* operator<<(ostream &, bool)
insert_bool(s, b) == write(s, IF b # {} THEN {0} ELSE {}, 1)

\* operator<<(ostream &, const std::bitset<N> &) and
\* operator<<(ostream &, const T &): value is the bitfield the conversion
\* of the operand gives (all ones above the width for a negative T).
insert_scalar(s, width, value) == write(s, value, width)

\* operator<<(ostream &, C &) and operator<<(ostream &, const C &):
\* obs << *it for every element of c; repeat() is not consulted.
RECURSIVE insert_container(_, _, _)
insert_container(s, width, c) ==
    IF c = <<>> THEN s
    ELSE Bind(IF width = 1 THEN insert_bool(s, Head(c))
              ELSE insert_scalar(s, width, Head(c)), LAMBDA s1 :
            insert_container(s1, width, Tail(c)))

\* ------------------------------------------------------------------------
\* Actions: one per public operation.  last records the stream and the
\* operation, its arguments, the state it started from (pre) and what it
\* handed back (ret).  A behaviour performs at most MaxOps operations.
\* An operation that dereferences the stream's bitbuf
\* pointer is not called on a stream whose pointer is null.
\* ------------------------------------------------------------------------

Pre == [bb |-> BB, i_state |-> i_state, gcount |-> m_gcount,
        gvalue |-> m_gvalue, i_repeat |-> i_repeat, o_state |-> o_state,
        o_repeat |-> o_repeat, i_bitbuf |-> i_bitbuf, o_bitbuf |-> o_bitbuf]

Done(stream, op, n, v, way, ret) ==
    /\ last' = [stream |-> stream, op |-> op, n |-> n, v |-> v, way |-> way,
                ret |-> ret, pre |-> Pre]
    /\ ops' = ops + 1

SetBB(bb) ==
    /\ m_buffer' = bb.buffer
    /\ m_gptr' = bb.gptr
    /\ m_egptr' = bb.egptr
    /\ m_eback' = bb.eback
    /\ m_pptr' = bb.pptr
    /\ m_epptr' = bb.epptr
    /\ m_pbase' = bb.pbase

SetIS(s) ==
    /\ SetBB(s.bb)
    /\ i_state' = s.state
    /\ m_gcount' = s.gcount
    /\ m_gvalue' = s.gvalue
    /\ i_repeat' = s.repeat
    /\ UNCHANGED <<i_bitbuf, ovars>>

SetOS(s) ==
    /\ SetBB(s.bb)
    /\ o_state' = s.state
    /\ o_repeat' = s.repeat
    /\ UNCHANGED <<o_bitbuf, ivars>>

\* The values an uninitialized bitfield may hold.
Junk == {{}, {0, 1, 2}}

\* The two bits.
Bit == {{}, {0}}

\* bin.read(value, n)
Read(value, n) ==
    /\ ops < MaxOps
    /\ i_bitbuf = "bb"
    /\ \E r \in {read(IS, value, n)} :
       SetIS(r.s) /\ Done("in", "read", n, value, "", r.value)

\* bin.readsome(value, n)
ReadSome(value, n) ==
    /\ ops < MaxOps
    /\ i_bitbuf = "bb"
    /\ \E r \in {readsome(IS, value, n)} :
       SetIS(r.s) /\ Done("in", "readsome", n, value, "", r.value)

\* bin.get(value, n)
GetN(value, n) ==
    /\ ops < MaxOps
    /\ i_bitbuf = "bb"
    /\ \E r \in {get_n(IS, value, n)} :
       SetIS(r.s) /\ Done("in", "get_n", n, value, "", r.value)

\* bin.get()
Get ==
    /\ ops < MaxOps
    /\ i_bitbuf = "bb"
    /\ \E s \in {get(IS)} :
       SetIS(s) /\ Done("in", "get", 1, {}, "", s.gvalue)

\* bin.peek()
Peek ==
    /\ ops < MaxOps
    /\ i_bitbuf = "bb"
    /\ \E s \in {peek(IS)} :
       SetIS(s) /\ Done("in", "peek", 1, {}, "", s.gvalue)

\* bin.ignore(n), also bin >> ignore(n)
Ignore(n) ==
    /\ ops < MaxOps
    /\ i_bitbuf = "bb"
    /\ \E s \in {ignore(IS, n)} :
       SetIS(s) /\ Done("in", "ignore", n, {}, "", {})

\* bin.aligng(k), also bin >> aligng(k); the bitbuf is reached only on a
\* good stream with k > 0.
AlignG(k) ==
    /\ ops < MaxOps
    /\ (good(i_state) /\ k > 0) => i_bitbuf = "bb"
    /\ \E s \in {aligng(IS, k)} :
       SetIS(s) /\ Done("in", "aligng", k, {}, "", {})

\* bin.repeat(r), also bin >> setrepeat(r)
SetRepeat(r) ==
    /\ ops < MaxOps
    /\ \E s \in {set_repeat(IS, r)} :
       SetIS(s) /\ Done("in", "repeat", r, {}, "", {})

\* bin.putback(b); the bitbuf is reached only when eof is not set.
Putback(b) ==
    /\ ops < MaxOps
    /\ ~eof(i_state) => i_bitbuf = "bb"
    /\ \E s \in {putback(IS, b)} :
       SetIS(s) /\ Done("in", "putback", 1, b, "", {})

\* bin.unget()
Unget ==
    /\ ops < MaxOps
    /\ i_bitbuf = "bb"
    /\ \E s \in {unget(IS)} :
       SetIS(s) /\ Done("in", "unget", 1, {}, "", {})

\* bin.seekg(position); the bitbuf is reached only when eof is not set.
SeekG(position) ==
    /\ ops < MaxOps
    /\ ~eof(i_state) => i_bitbuf = "bb"
    /\ \E s \in {seekg(IS, position)} :
       SetIS(s) /\ Done("in", "seekg", position, {}, "", {})

\* bin.seekg(offset, dir)
SeekGOff(offset, dir) ==
    /\ ops < MaxOps
    /\ ~eof(i_state) => i_bitbuf = "bb"
    /\ \E s \in {seekg_off(IS, offset, dir)} :
       SetIS(s) /\ Done("in", "seekg_off", offset, {}, dir, {})

\* bin >> b, b a bool
ExtractBool(junk) ==
    /\ ops < MaxOps
    /\ i_bitbuf = "bb"
    /\ \E r \in {extract_bool(IS, junk)} :
       SetIS(r.s) /\ Done("in", "extract_bool", 1, {}, "", r.value)

\* bin >> b, b a const bool
ExtractConstBool(b, junk) ==
    /\ ops < MaxOps
    /\ i_bitbuf = "bb"
    /\ \E r \in {extract_const_bool(IS, b, junk)} :
       SetIS(r.s) /\ Done("in", "extract_const_bool", 1, b, "", r.value)

\* bin >> x, x a std::bitset<width> or an unsigned integer of width bits
ExtractScalar(width, junk) ==
    /\ ops < MaxOps
    /\ i_bitbuf = "bb"
    /\ \E r \in {extract_scalar(IS, width, junk)} :
       SetIS(r.s) /\ Done("in", "extract_scalar", width, {}, "", r.value)

\* bin >> x, x a const std::bitset<width> or a const integer of width bits
ExtractConstScalar(width, b, junk) ==
    /\ ops < MaxOps
    /\ i_bitbuf = "bb"
    /\ \E r \in {extract_const_scalar(IS, width, b, junk)} :
       SetIS(r.s)
          /\ Done("in", "extract_const_scalar", width, b, "", r.value)

\* bin >> c, c a std::vector of size elements of width bits; the bitbuf
\* is reached only when an element is extracted.
ExtractContainer(width, size, junk) ==
    /\ ops < MaxOps
    /\ (IF i_repeat = 0 THEN size ELSE i_repeat) > 0 => i_bitbuf = "bb"
    /\ \E r \in {extract_container(IS, width, size, junk)} :
       SetIS(r.s) /\ Done("in", "extract_container", width, size, "", r.value)

\* bin >> c, c a boost::array of size elements of width bits
ExtractArray(width, size, junk) ==
    /\ ops < MaxOps
    /\ size > 0 => i_bitbuf = "bb"
    /\ \E r \in {extract_array(IS, width, size, junk)} :
       SetIS(r.s) /\ Done("in", "extract_array", width, size, "", r.value)

\* bin >> c, c a const container of elements of width bits
ExtractConstContainer(width, c, junk) ==
    /\ ops < MaxOps
    /\ c # <<>> => i_bitbuf = "bb"
    /\ \E r \in {extract_const_container(IS, width, c, junk)} :
       SetIS(r.s)
          /\ Done("in", "extract_const_container", width, c, "", r.value)

\* bin.clear(bits)
IClear(bits) ==
    /\ ops < MaxOps
    /\ i_state' = clear(i_state, bits)
    /\ UNCHANGED <<bufvars, i_bitbuf, m_gcount, m_gvalue, i_repeat, ovars>>
    /\ Done("in", "clear", 0, bits, "", {})

\* bin.setstate(bits)
ISetState(bits) ==
    /\ ops < MaxOps
    /\ i_state' = setstate(i_state, bits)
    /\ UNCHANGED <<bufvars, i_bitbuf, m_gcount, m_gvalue, i_repeat, ovars>>
    /\ Done("in", "setstate", 0, bits, "", {})

\* bin.rdbuf(bb): iob::rdbuf(bitbuf *) calls init.
IRdbuf(bb) ==
    /\ ops < MaxOps
    /\ i_bitbuf' = bb
    /\ i_state' = init(bb)
    /\ UNCHANGED <<bufvars, m_gcount, m_gvalue, i_repeat, ovars>>
    /\ Done("in", "rdbuf", 0, {}, bb, {})

\* bout.put(b); the bitbuf is reached only on a good stream.
Put(b) ==
    /\ ops < MaxOps
    /\ good(o_state) => o_bitbuf = "bb"
    /\ \E s \in {put(OS, b)} :
       SetOS(s) /\ Done("out", "put", 1, b, "", {})

\* bout.write(value, n)
Write(value, n) ==
    /\ ops < MaxOps
    /\ good(o_state) => o_bitbuf = "bb"
    /\ \E s \in {write(OS, value, n)} :
       SetOS(s) /\ Done("out", "write", n, value, "", {})

\* bout.ignore(n)
OIgnore(n) ==
    /\ ops < MaxOps
    /\ o_bitbuf = "bb"
    /\ \E s \in {o_ignore(OS, n)} :
       SetOS(s) /\ Done("out", "ignore", n, {}, "", {})

\* bout.alignp(k)
AlignP(k) ==
    /\ ops < MaxOps
    /\ (good(o_state) /\ k > 0) => o_bitbuf = "bb"
    /\ \E s \in {alignp(OS, k)} :
       SetOS(s) /\ Done("out", "alignp", k, {}, "", {})

\* bout.repeat(r), also bout >> setrepeat(r)
OSetRepeat(r) ==
    /\ ops < MaxOps
    /\ \E s \in {o_set_repeat(OS, r)} :
       SetOS(s) /\ Done("out", "repeat", r, {}, "", {})

\* bout.seekp(position)
SeekP(position) ==
    /\ ops < MaxOps
    /\ ~fail(o_state) => o_bitbuf = "bb"
    /\ \E s \in {seekp(OS, position)} :
       SetOS(s) /\ Done("out", "seekp", position, {}, "", {})

\* bout.seekp(offset, dir)
SeekPOff(offset, dir) ==
    /\ ops < MaxOps
    /\ ~fail(o_state) => o_bitbuf = "bb"
    /\ \E s \in {seekp_off(OS, offset, dir)} :
       SetOS(s) /\ Done("out", "seekp_off", offset, {}, dir, {})

\* bout << b, b a bool
InsertBool(b) ==
    /\ ops < MaxOps
    /\ good(o_state) => o_bitbuf = "bb"
    /\ \E s \in {insert_bool(OS, b)} :
       SetOS(s) /\ Done("out", "insert_bool", 1, b, "", {})

\* bout << x, x a std::bitset<width> or an integer of width bits
InsertScalar(width, value) ==
    /\ ops < MaxOps
    /\ good(o_state) => o_bitbuf = "bb"
    /\ \E s \in {insert_scalar(OS, width, value)} :
       SetOS(s) /\ Done("out", "insert_scalar", width, value, "", {})

\* bout << c, c a container of elements of width bits
InsertContainer(width, c) ==
    /\ ops < MaxOps
    /\ (good(o_state) /\ c # <<>>) => o_bitbuf = "bb"
    /\ \E s \in {insert_container(OS, width, c)} :
       SetOS(s) /\ Done("out", "insert_container", width, c, "", {})

\* bout.clear(bits)
OClear(bits) ==
    /\ ops < MaxOps
    /\ o_state' = clear(o_state, bits)
    /\ UNCHANGED <<bufvars, o_bitbuf, o_repeat, ivars>>
    /\ Done("out", "clear", 0, bits, "", {})

\* bout.setstate(bits)
OSetState(bits) ==
    /\ ops < MaxOps
    /\ o_state' = setstate(o_state, bits)
    /\ UNCHANGED <<bufvars, o_bitbuf, o_repeat, ivars>>
    /\ Done("out", "setstate", 0, bits, "", {})

\* bout.rdbuf(bb)
ORdbuf(bb) ==
    /\ ops < MaxOps
    /\ o_bitbuf' = bb
    /\ o_state' = init(bb)
    /\ UNCHANGED <<bufvars, o_repeat, ivars>>
    /\ Done("out", "rdbuf", 0, {}, bb, {})

\* ------------------------------------------------------------------------
\* The specification of the two streams: a region of one to MaxBytes
\* bytes, a bitbuf constructed over it for reading and writing, an istream
\* and an ostream constructed on the bitbuf (or on a null pointer), then
\* up to MaxOps operations in any order.
\* ------------------------------------------------------------------------

\* Region contents: the buffers of the regression tests, 0xb7 0x40 (taken
\* twice over) and 0x12 0x34 0x56 0x78.
RegionSeeds == {<<183, 64, 183, 64>>, <<18, 52, 86, 120>>}

Regions ==
    { [i \in 0 .. (k - 1) |-> BitsOf(seed[i + 1])] :
        seed \in RegionSeeds, k \in 1 .. MaxBytes }

Handles == {"bb", "null"}

NoOp == [stream |-> "", op |-> "none", n |-> 0, v |-> {}, way |-> "",
         ret |-> {}, pre |-> {}]

\* bitbuf::bitbuf(buffer, size, in | out), istream::istream(bb) and
\* ostream::ostream(bb)
Init ==
    /\ m_buffer \in Regions
    /\ m_gptr = 0
    /\ m_egptr = Cardinality(DOMAIN m_buffer) * CharBit
    /\ m_eback = 0
    /\ m_pptr = 0
    /\ m_epptr = Cardinality(DOMAIN m_buffer) * CharBit
    /\ m_pbase = 0
    /\ i_bitbuf \in Handles
    /\ i_state = init(i_bitbuf)
    /\ m_gcount = 0
    /\ m_gvalue = {}
    /\ i_repeat = 0
    /\ o_bitbuf \in Handles
    /\ o_state = init(o_bitbuf)
    /\ o_repeat = 0
    /\ last = NoOp
    /\ ops = 0

Widths == -1 .. MaxBits

SeekPositions == -1 .. (m_egptr + 1)

SeekOffsets == (0 - MaxSeek) .. MaxSeek

SeekDirs == {"beg", "cur", "end"}

Aligns == (0 .. MaxAlign) \cup {CharBit}

Repeats == 0 .. MaxRepeat

\* std::bitset<2> and std::bitset<7> of the RTP test, uint8_t, uint16_t.
ScalarWidths == {2, 7, 8, 16}

\* Operands of the const extractions and of the insertions: 0b10 (the RTP
\* version), 0xb7, 0, and -1 converted to bitfield.
Operands(width) ==
    {BitsOf(2), BitsOf(183) \cap (0 .. (width - 1)), {}, AllOnes}

StateSets == SUBSET StateBits

\* Element widths of the containers: bool and uint8_t.
ElementWidths == {1, CharBit}

ContainerSizes == 0 .. MaxSize

\* The containers of the given element width: up to MaxSize elements, each
\* 0, 1 or (for uint8_t) 0x12, the first byte of the container tests.
Containers(width) ==
    LET elements == IF width = 1 THEN Bit ELSE {{}, BitsOf(18)}
    IN UNION {[1 .. k -> elements] : k \in ContainerSizes}

NextIn ==
    \/ \E n \in Widths, v \in Junk : Read(v, n)
    \/ \E n \in Widths, v \in Junk : ReadSome(v, n)
    \/ \E n \in Widths, v \in Junk : GetN(v, n)
    \/ Get
    \/ Peek
    \/ \E n \in Widths : Ignore(n)
    \/ \E k \in Aligns : AlignG(k)
    \/ \E r \in Repeats : SetRepeat(r)
    \/ \E b \in Bit : Putback(b)
    \/ Unget
    \/ \E position \in SeekPositions : SeekG(position)
    \/ \E offset \in SeekOffsets, dir \in SeekDirs : SeekGOff(offset, dir)
    \/ \E v \in Junk : ExtractBool(v)
    \/ \E b \in Bit, v \in Junk : ExtractConstBool(b, v)
    \/ \E w \in ScalarWidths, v \in Junk : ExtractScalar(w, v)
    \/ \E w \in ScalarWidths, v \in Junk :
          \E b \in {x \cap (0 .. (w - 1)) : x \in Operands(w)} :
              ExtractConstScalar(w, b, v)
    \/ \E w \in ElementWidths, k \in ContainerSizes, v \in Junk :
          ExtractContainer(w, k, v)
    \/ \E w \in ElementWidths, k \in ContainerSizes, v \in Junk :
          ExtractArray(w, k, v)
    \/ \E w \in ElementWidths, v \in Junk : \E c \in Containers(w) :
          ExtractConstContainer(w, c, v)
    \/ \E bits \in StateSets : IClear(bits)
    \/ \E bits \in StateSets : ISetState(bits)
    \/ \E bb \in Handles : IRdbuf(bb)

NextOut ==
    \/ \E b \in Bit \cup {AllOnes} : Put(b)
    \/ \E n \in Widths : \E v \in Operands(n) : Write(v, n)
    \/ \E n \in Widths : OIgnore(n)
    \/ \E k \in Aligns : AlignP(k)
    \/ \E r \in Repeats : OSetRepeat(r)
    \/ \E position \in SeekPositions : SeekP(position)
    \/ \E offset \in SeekOffsets, dir \in SeekDirs : SeekPOff(offset, dir)
    \/ \E b \in Bit : InsertBool(b)
    \/ \E w \in ScalarWidths : \E v \in Operands(w) : InsertScalar(w, v)
    \/ \E w \in ElementWidths : \E c \in Containers(w) : InsertContainer(w, c)
    \/ \E bits \in StateSets : OClear(bits)
    \/ \E bits \in StateSets : OSetState(bits)
    \/ \E bb \in Handles : ORdbuf(bb)

Next == NextIn \/ NextOut

Spec == Init /\ [][Next]_vars

\* ------------------------------------------------------------------------
\* Field-level specification: the region is WideBytes bytes, both cursors
\* start at a drawn position (as bitbuf::pubseekpos leaves them), and a
\* field of any width the bitfield type allows is written or read there.
\* ------------------------------------------------------------------------

\* The RTP header of the regression test.
RtpHeader == <<128, 8, 231, 60, 0, 0, 60, 0, 222, 224, 238, 143>>

WideRegions ==
    { [i \in 0 .. (WideBytes - 1) |-> ByteOnes],
      [i \in 0 .. (WideBytes - 1) |-> BitsOf(RtpHeader[i + 1])] }

\* Bit patterns for the values written.
Alternating == {i \in AllOnes : i % 2 = 0}

FieldValues(n) ==
    LET low == (0 .. (n - 1)) \cap AllOnes
    IN {AllOnes, Alternating, low, Alternating \cap low, {}}

\* Widths for which the shifts of xsprocessn_nobump are defined.
FieldWidths == 0 .. FieldWidth

InitField ==
    /\ m_buffer \in WideRegions
    /\ m_gptr \in 0 .. MaxCursor
    /\ m_pptr = m_gptr
    /\ m_egptr = WideBytes * CharBit
    /\ m_epptr = WideBytes * CharBit
    /\ m_eback = 0
    /\ m_pbase = 0
    /\ i_bitbuf = "bb"
    /\ i_state = init("bb")
    /\ m_gcount = 0
    /\ m_gvalue = {}
    /\ i_repeat = 0
    /\ o_bitbuf = "bb"
    /\ o_state = init("bb")
    /\ o_repeat = 0
    /\ last = NoOp
    /\ ops = 0

\* A read of every width at the drawn cursor.
FieldRead == ops = 0 /\ \E n \in FieldWidths : Read({}, n)

\* A write of every width at the drawn cursor.
FieldWrite ==
    ops = 0 /\ \E n \in FieldWidths : \E v \in FieldValues(n) : Write(v, n)

\* The read, at the same cursor, of the field just written.
FieldReadBack == ops = 1 /\ last.op = "write" /\ Read({}, last.n)

NextField == FieldWrite \/ FieldRead \/ FieldReadBack

SpecField == InitField /\ [][NextField]_vars

\* ------------------------------------------------------------------------
\* Sequence-level specification: a chain of insertions
\* bout << f1 << f2 ... from bit 0 of the region, a chain of extractions
\* bin >> f1 >> f2 ... from bit 0, and each followed by the other, as the
\* RTP regression test does.  A field is [w |-> width, v |-> value].
\* ------------------------------------------------------------------------

\* bout << f1 << f2 << ...: operator<< for a bool, a std::bitset<w> or an
\* unsigned integer of w bits, applied to the fields in order.
RECURSIVE insert_fields(_, _)
insert_fields(s, fields) ==
    IF fields = <<>> THEN s
    ELSE Bind(IF Head(fields).w = 1 THEN insert_bool(s, Head(fields).v)
              ELSE insert_scalar(s, Head(fields).w, Head(fields).v),
              LAMBDA s1 : insert_fields(s1, Tail(fields)))

\* bin >> f1 >> f2 >> ...: operator>> for a bool, a std::bitset<w> or an
\* unsigned integer of w bits, applied for the widths in order.
RECURSIVE extract_fields(_, _, _)
extract_fields(s, widths, junk) ==
    IF widths = <<>> THEN [s |-> s, value |-> <<>>]
    ELSE Bind(extract_element(s, Head(widths), junk), LAMBDA r :
            Bind(extract_fields(r.s, Tail(widths), junk), LAMBDA rest :
               [s |-> rest.s, value |-> <<r.value>> \o rest.value]))

\* bout << f1 << f2 << ...
InsertFields(fields) ==
    /\ ops < MaxOps
    /\ (good(o_state) /\ fields # <<>>) => o_bitbuf = "bb"
    /\ \E s \in {insert_fields(OS, fields)} :
       SetOS(s) /\ Done("out", "insert_fields", Len(fields), fields, "", {})

\* bin >> f1 >> f2 >> ...
ExtractFields(widths, junk) ==
    /\ ops < MaxOps
    /\ widths # <<>> => i_bitbuf = "bb"
    /\ \E r \in {extract_fields(IS, widths, junk)} :
       SetIS(r.s)
          /\ Done("in", "extract_fields", Len(widths), widths, "", r.value)

\* The widths of the RTP header fields (bool, std::bitset<2>,
\* std::bitset<4>, std::bitset<7>, uint16_t, uint32_t) and of a uint64_t.
SequenceWidths == {1, 2, 4, 7, 16, 32, FieldWidth}

\* The chains of up to MaxFields widths.
WidthSequences == UNION {[1 .. k -> SequenceWidths] : k \in 1 .. MaxFields}

\* The chains of up to MaxFields fields.
FieldSequences ==
    LET fields == UNION {{[w |-> n, v |-> x] : x \in FieldValues(n)} :
                         n \in SequenceWidths}
    IN UNION {[1 .. k -> fields] : k \in 1 .. MaxFields}

InitSequence ==
    /\ m_buffer \in WideRegions
    /\ m_gptr = 0
    /\ m_pptr = 0
    /\ m_egptr = WideBytes * CharBit
    /\ m_epptr = WideBytes * CharBit
    /\ m_eback = 0
    /\ m_pbase = 0
    /\ i_bitbuf = "bb"
    /\ i_state = init("bb")
    /\ m_gcount = 0
    /\ m_gvalue = {}
    /\ i_repeat = 0
    /\ o_bitbuf = "bb"
    /\ o_state = init("bb")
    /\ o_repeat = 0
    /\ last = NoOp
    /\ ops = 0

\* A chain of insertions from bit 0.
SequenceInsert == ops = 0 /\ \E fields \in FieldSequences : InsertFields(fields)

\* The extraction, from bit 0 and with the same widths, of the fields just
\* inserted.
SequenceExtractBack ==
    /\ ops = 1
    /\ last.op = "insert_fields"
    /\ \E junk \in Junk :
          ExtractFields([i \in DOMAIN last.v |-> last.v[i].w], junk)

\* A chain of extractions from bit 0.
SequenceExtract ==
    /\ ops = 0
    /\ \E widths \in WidthSequences, junk \in Junk :
          ExtractFields(widths, junk)

\* The insertion, from bit 0, of the fields just extracted.
SequenceReinsert ==
    /\ ops = 1
    /\ last.op = "extract_fields"
    /\ InsertFields([i \in DOMAIN last.v |->
                        [w |-> last.v[i], v |-> last.ret[i]]])

NextSequence ==
    \/ SequenceInsert
    \/ SequenceExtractBack
    \/ SequenceExtract
    \/ SequenceReinsert

SpecSequence == InitSequence /\ [][NextSequence]_vars

\* ------------------------------------------------------------------------
\* Buffer-level specification: the two cursors are where earlier seeks of
\* the two streams left them, and the bitbuf is asked directly for one
\* seek of the read cursor, of the write cursor or of both.
\* ------------------------------------------------------------------------

\* The open modes a seek can select.
WhichSets == {{"in"}, {"out"}, {"in", "out"}}

InitBuffer ==
    /\ m_buffer \in Regions
    /\ m_egptr = Cardinality(DOMAIN m_buffer) * CharBit
    /\ m_epptr = Cardinality(DOMAIN m_buffer) * CharBit
    /\ m_eback = 0
    /\ m_pbase = 0
    /\ m_gptr \in m_eback .. m_egptr
    /\ m_pptr \in m_pbase .. m_epptr
    /\ i_bitbuf = "bb"
    /\ i_state = init("bb")
    /\ m_gcount = 0
    /\ m_gvalue = {}
    /\ i_repeat = 0
    /\ o_bitbuf = "bb"
    /\ o_state = init("bb")
    /\ o_repeat = 0
    /\ last = NoOp
    /\ ops = 0

\* bb.pubseekoff(offset, way, which)
BufferSeekOff(offset, way, which) ==
    /\ ops < MaxOps
    /\ \E r \in {pubseekoff(BB, offset, way, which)} :
       /\ SetBB(r.bb)
       /\ UNCHANGED <<ivars, ovars>>
       /\ Done("buf", "pubseekoff", offset, which, way, r.ret)

\* bb.pubseekpos(position, which)
BufferSeekPos(position, which) ==
    /\ ops < MaxOps
    /\ \E r \in {pubseekpos(BB, position, which)} :
       /\ SetBB(r.bb)
       /\ UNCHANGED <<ivars, ovars>>
       /\ Done("buf", "pubseekpos", position, which, "", r.ret)

\* One relative seek of the bitbuf from the drawn cursors.
BufferSeekOffOnce ==
    /\ ops = 0
    /\ \E offset \in SeekOffsets, way \in SeekDirs, which \in WhichSets :
          BufferSeekOff(offset, way, which)

\* One absolute seek of the bitbuf from the drawn cursors.
BufferSeekPosOnce ==
    /\ ops = 0
    /\ \E position \in SeekPositions, which \in WhichSets :
          BufferSeekPos(position, which)

NextBuffer == BufferSeekOffOnce \/ BufferSeekPosOnce

SpecBuffer == InitBuffer /\ [][NextBuffer]_vars

\* ------------------------------------------------------------------------
\* The earlier bitbuf (bstream.hpp): xsgetn with its two shift formulas.
\* size_t and std::streamsize are taken as 64 bits wide, so that
\* CHAR_BIT * 2 - intraByteBitOffset - size is evaluated in size_t.
\* ------------------------------------------------------------------------

\* Width in bits of size_t.
SizeBits == 64

\* a + b + carry in size_t from bit i upwards: the carry out of the top
\* bit is lost.
RECURSIVE UAddFrom(_, _, _, _)
UAddFrom(a, b, i, carry) ==
    IF i = SizeBits THEN {}
    ELSE LET s == (IF i \in a THEN 1 ELSE 0) + (IF i \in b THEN 1 ELSE 0)
                  + carry
         IN (IF s % 2 = 1 THEN {i} ELSE {}) \cup UAddFrom(a, b, i + 1, s \div 2)

\* a - b in size_t: a + ~b + 1
USub(a, b) == UAddFrom(a, (0 .. (SizeBits - 1)) \ b, 0, 1)

\* a > b in size_t
UGt(a, b) ==
    \E i \in a \ b : \A j \in (i + 1) .. (SizeBits - 1) : (j \in a) <=> (j \in b)

\* shiftAmount of xsgetn, intraByteBitOffset being gptr % CHAR_BIT
shiftAmount(size, gptr) ==
    (CharBit - ((size + (gptr % CharBit)) % CharBit)) % CharBit

\* An older formula that is not reduced modulo CHAR_BIT.
oldShiftAmount_unreduced(size, gptr) ==
    USub(USub(BitsOf(CharBit * 2), BitsOf(gptr % CharBit)), BitsOf(size))

\* The initializer of oldShiftAmount in xsgetn, a size_t; x % CHAR_BIT,
\* CHAR_BIT being 2^3, keeps the bits of x below bit 3.
oldShiftAmount_init(size, gptr) ==
    USub(USub(BitsOf(CharBit * 2), BitsOf(gptr % CharBit)), BitsOf(size))
        \cap BitsOf(CharBit - 1)

\* Whether xsgetn takes the branch 'oldShiftAmount > CHAR_BIT'.
oldShiftAmount_corrected(size, gptr) ==
    UGt(oldShiftAmount_init(size, gptr), BitsOf(CharBit))

\* oldShiftAmount where xsgetn asserts on it.
oldShiftAmount(size, gptr) ==
    IF oldShiftAmount_corrected(size, gptr)
    THEN UAddFrom(oldShiftAmount_init(size, gptr), BitsOf(CharBit), 0, 0)
    ELSE oldShiftAmount_init(size, gptr)

\* bitbuf::xsgetn of bstream.hpp: the bits gotten, the value, the buffer
\* with the get pointer advanced, and what the shift computation did.
legacy_xsgetn(bb, value, size) ==
    IF size > 0 /\ size <= bb.egptr - bb.gptr
    THEN Bind(shiftAmount(size, bb.gptr), LAMBDA sa :
           LET mask == Shl(field_mask(size), sa)
               byteCount == (size + sa + CharBit - 1) \div CharBit
               preMaskValue == pre_mask_value(bb.buffer, bb.gptr \div CharBit,
                                              byteCount)
           IN [bb |-> gbump(bb, size),
               value |-> Shr(preMaskValue \cap mask, sa),
               ret |-> size,
               shiftAmount |-> sa,
               oldShiftAmount |-> oldShiftAmount(size, bb.gptr),
               corrected |-> oldShiftAmount_corrected(size, bb.gptr),
               asserted |-> BitsOf(sa) = oldShiftAmount(size, bb.gptr)])
    ELSE [bb |-> bb, value |-> value, ret |-> 0, shiftAmount |-> 0,
          oldShiftAmount |-> {}, corrected |-> FALSE, asserted |-> TRUE]

\* A 9-byte region with the get pointer at any of the first bits.
InitLegacy ==
    /\ m_buffer \in WideRegions
    /\ m_gptr \in 0 .. MaxCursor
    /\ m_pptr = 0
    /\ m_egptr = WideBytes * CharBit
    /\ m_epptr = WideBytes * CharBit
    /\ m_eback = 0
    /\ m_pbase = 0
    /\ i_bitbuf = "bb"
    /\ i_state = init("bb")
    /\ m_gcount = 0
    /\ m_gvalue = {}
    /\ i_repeat = 0
    /\ o_bitbuf = "bb"
    /\ o_state = init("bb")
    /\ o_repeat = 0
    /\ last = NoOp
    /\ ops = 0

\* bitbuf::xsgetn(value, size) of bstream.hpp, called once
LegacyXsgetn(size) ==
    /\ ops = 0
    /\ \E r \in {legacy_xsgetn(BB, {}, size)} :
       /\ SetBB(r.bb)
       /\ UNCHANGED <<ivars, ovars>>
       /\ Done("buf", "xsgetn", size, {}, "",
               [value |-> r.value, ret |-> r.ret,
                shiftAmount |-> r.shiftAmount,
                oldShiftAmount |-> r.oldShiftAmount,
                corrected |-> r.corrected, asserted |-> r.asserted])

NextLegacy == \E size \in FieldWidths : LegacyXsgetn(size)

SpecLegacy == InitLegacy /\ [][NextLegacy]_vars

\* ------------------------------------------------------------------------
\* What the specification of the library says about the region
\* ------------------------------------------------------------------------

\* The bit at stream position k: position 0 is the most significant bit
\* of byte 0, position 8 the most significant bit of byte 1.
BitAt(buffer, k) == (CharBit - 1 - (k % CharBit)) \in buffer[k \div CharBit]

\* The right-justified value of the n bits at positions g .. g+n-1.
FieldAt(buffer, g, n) == {n - 1 - k : k \in {j \in 0 .. (n - 1) : BitAt(buffer, g + j)}}


\* ------------------------------------------------------------------------
\* Claims about one field (SpecField)
\* ------------------------------------------------------------------------

\* The last operation was a read of n bits that lay inside the region.
ReadInRange ==
    /\ last.op = "read"
    /\ 0 < last.n /\ last.n < FieldWidth
    /\ last.pre.bb.gptr + last.n <= last.pre.bb.egptr

\* C1: a read of n bits (0 < n < field_width, g + n <= g_end) returns the
\* right-justified integer whose binary representation is buffer bits
\* g, g+1, ..., g+n-1, most significant first, whatever g mod 8 is.
C1_ReadMsbFirst ==
    ReadInRange =>
        last.ret = FieldAt(last.pre.bb.buffer, last.pre.bb.gptr, last.n)

\* The same statement for the fields that, with the bits to their left in
\* their first byte, fit the bitfield type.
C1_ReadMsbFirstFitting ==
    (ReadInRange /\ (last.pre.bb.gptr % CharBit) + last.n <= FieldWidth) =>
        last.ret = FieldAt(last.pre.bb.buffer, last.pre.bb.gptr, last.n)

\* The last operation was a write of n bits that lay inside the region,
\* on a stream that was good.
WriteInRange ==
    /\ last.op = "write"
    /\ good(last.pre.o_state)
    /\ 0 < last.n /\ last.n < FieldWidth
    /\ last.pre.bb.pptr + last.n <= last.pre.bb.epptr

\* C2: writing v (v < 2^n, 0 < n < field_width) as n bits at offset off and
\* then reading n bits at off yields v.
C2_RoundTrip ==
    [][(/\ WriteInRange
        /\ last.v \subseteq 0 .. (last.n - 1)
        /\ last'.op = "read"
        /\ last'.n = last.n
        /\ last'.pre.bb.gptr = last.pre.bb.pptr)
       => last'.ret = last.v]_vars

\* The round trip for the fields that, with the bits to their left in
\* their first byte, fit the bitfield type.
C2_RoundTripFitting ==
    [][(/\ WriteInRange
        /\ last.v \subseteq 0 .. (last.n - 1)
        /\ (last.pre.bb.pptr % CharBit) + last.n <= FieldWidth
        /\ last'.op = "read"
        /\ last'.n = last.n
        /\ last'.pre.bb.gptr = last.pre.bb.pptr)
       => last'.ret = last.v]_vars

\* The stream positions of the region.
Positions(buffer) == 0 .. (Cardinality(DOMAIN buffer) * CharBit - 1)

\* C4: a successful write of n bits at put cursor p_old changes no buffer
\* bit outside positions [p_old, p_old + n), for every bitfield value
\* passed (also one with bits set above bit n-1) and every intra-byte
\* offset of p_old.
C4_WriteFrame ==
    WriteInRange =>
        \A k \in Positions(m_buffer) :
            (k < last.pre.bb.pptr \/ k >= last.pre.bb.pptr + last.n)
                => (BitAt(m_buffer, k) <=> BitAt(last.pre.bb.buffer, k))

\* The frame for values below 2^n in fields that, with the bits to their
\* left in their first byte, fit the bitfield type.
C4_WriteFrameFitting ==
    (/\ WriteInRange
     /\ last.v \subseteq 0 .. (last.n - 1)
     /\ (last.pre.bb.pptr % CharBit) + last.n <= FieldWidth) =>
        \A k \in Positions(m_buffer) :
            (k < last.pre.bb.pptr \/ k >= last.pre.bb.pptr + last.n)
                => (BitAt(m_buffer, k) <=> BitAt(last.pre.bb.buffer, k))

\* ------------------------------------------------------------------------
\* Claims about the streams (Spec)
\* ------------------------------------------------------------------------

\* read, readsome and get(value, n) are the same transfer of n bits.
ReadOps == {"read", "readsome", "get_n"}

LastIsRead == last.stream = "in" /\ last.op \in ReadOps

\* Bits available to the last operation when it started.
AvailBefore == last.pre.bb.egptr - last.pre.bb.gptr

\* C3: a successful read of n bits advances the read cursor g by exactly
\* n; a failing read (more bits requested than available) leaves g exactly
\* where it was.
C3_ReadCursorLaw ==
    LastIsRead =>
        /\ (0 <= last.n /\ last.n <= AvailBefore)
              => m_gptr = last.pre.bb.gptr + last.n
        /\ last.n > AvailBefore => m_gptr = last.pre.bb.gptr

\* A read of 3 bits from cursor 2 has left the cursor at 5.
C3_Witness ==
    /\ LastIsRead
    /\ last.n = 3
    /\ last.pre.bb.gptr = 2
    /\ m_gptr = 5

\* C5: for every n greater than the number of available bits, read(value,
\* n) sets both fail and eof, does not set bad, zeroes the output value and
\* gvalue and sets gcount to 0.
C5_Overrun ==
    (LastIsRead /\ last.n > AvailBefore) =>
        /\ "fail" \in i_state
        /\ "eof" \in i_state
        /\ "bad" \in i_state => "bad" \in last.pre.i_state
        /\ last.ret = {}
        /\ m_gvalue = {}
        /\ m_gcount = 0

\* A read of more bits than the 3 that were left, after a read that had
\* delivered a nonzero value, on a stream that was good.
C5_Witness ==
    /\ LastIsRead
    /\ AvailBefore = 3
    /\ last.n > 3
    /\ good(last.pre.i_state)
    /\ last.pre.gvalue # {}
    /\ last.pre.gcount > 0
    /\ i_state = {"eof", "fail"}

\* C6: for n > 0 equal to the number of available bits, read(value, n)
\* succeeds (value delivered, gcount = n, cursor at g_end) and sets eof
\* without setting fail or bad.
C6_ExactEnd ==
    (LastIsRead /\ last.n > 0 /\ last.n = AvailBefore) =>
        /\ last.ret = FieldAt(last.pre.bb.buffer, last.pre.bb.gptr, last.n)
        /\ m_gvalue = last.ret
        /\ m_gcount = last.n
        /\ m_gptr = m_egptr
        /\ i_state = last.pre.i_state \cup {"eof"}

\* A read of the last 5 bits of the region on a good stream, whose value is
\* not zero.
C6_Witness ==
    /\ LastIsRead
    /\ last.n = 5
    /\ AvailBefore = 5
    /\ good(last.pre.i_state)
    /\ last.ret # {}
    /\ i_state = {"eof"}

\* The state of the stream the last operation was invoked on, before and
\* after it.
StateBefore ==
    IF last.stream = "in" THEN last.pre.i_state ELSE last.pre.o_state

StateAfter == IF last.stream = "in" THEN i_state ELSE o_state

\* C7: the set of state bits {eof, fail, bad} never loses a member except
\* through an explicit clear call; every other operation (including
\* reseating the buffer handle) can only add bits.
C7_Sticky ==
    (last.op # "none" /\ last.op # "clear") => StateBefore \subseteq StateAfter

\* C7 as the code has it: the state bits lose a member only through clear
\* or through rdbuf(bb), which sets the state anew (good for a bitbuf, bad
\* for a null pointer); every other operation can only add bits.
C7_StickyButReseat ==
    /\ (last.op \notin {"none", "clear", "rdbuf"})
          => StateBefore \subseteq StateAfter
    /\ last.op = "rdbuf" => StateAfter = init(last.way)

\* A read on a stream with eof and fail set has set no further bit and
\* lost none.
C7_Witness ==
    /\ LastIsRead
    /\ last.pre.i_state = {"eof", "fail"}
    /\ i_state = {"eof", "fail"}

\* The input operations other than clear and the seeks: get, read,
\* readsome, peek, ignore, unget, putback, aligng and the extractions.
ShortCircuitInputOps ==
    ReadOps \cup {"get", "peek", "ignore", "unget", "putback", "aligng",
                  "extract_bool", "extract_const_bool", "extract_scalar",
                  "extract_const_scalar", "extract_container",
                  "extract_array", "extract_const_container"}

\* C8: every input operation other than clear and seek invoked while fail
\* or bad is set is a no-op: it leaves the state bits set and does not move
\* the read cursor, even when enough bits are available to satisfy it.
C8_InputShortCircuit ==
    (/\ last.stream = "in"
     /\ last.op \in ShortCircuitInputOps
     /\ fail(last.pre.i_state)) =>
        /\ last.pre.i_state \subseteq i_state
        /\ m_gptr = last.pre.bb.gptr

\* The insertions: put, write and the typed insertions.
InsertOps ==
    {"put", "write", "insert_bool", "insert_scalar", "insert_container"}

\* C9: put, write and every typed insertion invoked while fail or bad is
\* set leave the put cursor and every buffer bit unchanged and leave the
\* state bits set.
C9_OutputShortCircuit ==
    (/\ last.stream = "out"
     /\ last.op \in InsertOps
     /\ fail(last.pre.o_state)) =>
        /\ m_pptr = last.pre.bb.pptr
        /\ m_buffer = last.pre.bb.buffer
        /\ last.pre.o_state \subseteq o_state

\* A write of 3 bits, all ones, on a stream with fail set, into a region
\* that had room for them and zeros at the put cursor.
C9_Witness ==
    /\ last.stream = "out"
    /\ last.op = "write"
    /\ last.pre.o_state = {"fail"}
    /\ last.pre.o_bitbuf = "bb"
    /\ last.n = 3
    /\ last.v = AllOnes
    /\ last.pre.bb.epptr - last.pre.bb.pptr >= 3
    /\ FieldAt(last.pre.bb.buffer, last.pre.bb.pptr, 3) = {}

\* C10: in every reachable stream state bad implies fail: whenever bad()
\* is true, fail() is also true and the stream is falsy, whichever
\* operation set the bad bit.
C10_BadImpliesFail ==
    /\ bad(i_state) => (fail(i_state) /\ ~truthy(i_state))
    /\ bad(o_state) => (fail(o_state) /\ ~truthy(o_state))

\* A putback of a bit that is not the one in the region has set badbit on
\* a stream whose failbit is not set.
C10_Witness ==
    /\ last.op = "putback"
    /\ "bad" \notin last.pre.i_state
    /\ "bad" \in i_state
    /\ "fail" \notin i_state

\* C11: after any sequence of operations (reads, writes, seeks with any
\* whence and any signed offset, ignore, unget, putback, peek, align) the
\* read cursor satisfies g_begin <= g <= g_end and the write cursor
\* satisfies p_begin <= p <= p_end.
C11_CursorBounds ==
    /\ m_eback <= m_gptr /\ m_gptr <= m_egptr
    /\ m_pbase <= m_pptr /\ m_pptr <= m_epptr
    /\ pbase(BB) <= m_pptr

\* A seek one bit forward from a read cursor at g_end has left the cursor
\* at g_end.
C11_Witness ==
    /\ last.stream = "in"
    /\ last.op = "seekg_off"
    /\ last.way = "cur"
    /\ last.n = 1
    /\ last.pre.bb.gptr = m_egptr
    /\ m_gptr = m_egptr

\* Bits that could be written when the last operation started.
RoomBefore == last.pre.bb.epptr - last.pre.bb.pptr

\* C12: a successful write of n bits advances the put cursor p by exactly
\* n (put by exactly 1); a write or put that does not fit in [p, p_end)
\* returns 0 bits written / false (the stream then sets bad for write, fail
\* for put), leaves p unchanged and modifies no buffer bit.
C12_WriteCursorLaw ==
    (last.stream = "out" /\ good(last.pre.o_state)) =>
        /\ (last.op = "write" /\ 0 < last.n /\ last.n <= RoomBefore) =>
              /\ m_pptr = last.pre.bb.pptr + last.n
              /\ good(o_state)
        /\ (last.op = "write" /\ last.n > RoomBefore) =>
              /\ m_pptr = last.pre.bb.pptr
              /\ m_buffer = last.pre.bb.buffer
              /\ o_state = {"bad"}
        /\ (last.op = "put" /\ RoomBefore > 0) =>
              /\ m_pptr = last.pre.bb.pptr + 1
              /\ good(o_state)
        /\ (last.op = "put" /\ RoomBefore = 0) =>
              /\ m_pptr = last.pre.bb.pptr
              /\ m_buffer = last.pre.bb.buffer
              /\ o_state = {"fail"}

\* A write of 3 bits at put cursor 5 on a good stream has left the cursor
\* at 8.
C12_Witness ==
    /\ last.stream = "out"
    /\ last.op = "write"
    /\ good(last.pre.o_state)
    /\ last.n = 3
    /\ last.pre.bb.pptr = 5
    /\ m_pptr = 8

\* The bit at stream position k as a bitfield: 1 or 0.
BitValueAt(buffer, k) == IF BitAt(buffer, k) THEN {0} ELSE {}

\* C13: peek is a pure look-ahead: when a bit is available, peek() returns
\* the bit at the read cursor and leaves the read cursor where it was, so
\* an immediately following get() or read returns that same bit.
C13_PeekPure ==
    [][/\ (last'.op = "peek" /\ last'.pre.bb.gptr < last'.pre.bb.egptr) =>
              /\ last'.ret = BitValueAt(last'.pre.bb.buffer, last'.pre.bb.gptr)
              /\ m_gptr' = last'.pre.bb.gptr
       /\ (/\ last.op = "peek"
           /\ last.pre.bb.gptr < last.pre.bb.egptr
           /\ last'.stream = "in"
           /\ (last'.op = "get" \/ (last'.op \in ReadOps /\ last'.n = 1))) =>
              last'.ret = last.ret]_vars

\* C14: after each call of get, read, readsome or ignore, gcount equals the
\* number of bits by which that call advanced the read cursor, and it is 0
\* when the call failed (the cursor then has not moved).
C14_GcountTracks ==
    (last.stream = "in" /\ last.op \in ReadOps \cup {"get", "ignore"}) =>
        m_gcount = m_gptr - last.pre.bb.gptr

\* An ignore of 3 bits from cursor 2 has left the cursor at 5 and gcount
\* at 3.
C14_Witness ==
    /\ last.stream = "in"
    /\ last.op = "ignore"
    /\ last.n = 3
    /\ last.pre.bb.gptr = 2
    /\ m_gptr = 5
    /\ m_gcount = 3

\* ------------------------------------------------------------------------
\* Seeking the read cursor
\* ------------------------------------------------------------------------

SeekOps == {"seekg", "seekg_off"}

LastIsSeekG == last.stream = "in" /\ last.op \in SeekOps

\* The position the last seek asked for, computed from the state it
\* started from.
SeekTarget ==
    CASE last.op = "seekg" -> last.n
      [] last.op = "seekg_off" /\ last.way = "beg" ->
            last.pre.bb.eback + last.n
      [] last.op = "seekg_off" /\ last.way = "cur" ->
            last.pre.bb.gptr + last.n
      [] last.op = "seekg_off" /\ last.way = "end" ->
            last.pre.bb.egptr + last.n
      [] OTHER -> NPOS

TargetInRange ==
    last.pre.bb.eback <= SeekTarget /\ SeekTarget <= last.pre.bb.egptr

\* What the bitbuf answers to the last seek when asked from the state the
\* seek started from.
BufferSeek ==
    IF last.op = "seekg"
    THEN pubseekpos(last.pre.bb, last.n, {"in"})
    ELSE pubseekoff(last.pre.bb, last.n, last.way, {"in"})

\* The out-of-range half of the seek law: the bitbuf returns NPOS and is
\* left as it was, the stream sets fail, does not set bad, and the read
\* cursor stays.
SeekOutOfRange ==
    (LastIsSeekG /\ ~TargetInRange) =>
        /\ BufferSeek.ret = NPOS
        /\ BufferSeek.bb = last.pre.bb
        /\ m_gptr = last.pre.bb.gptr
        /\ "fail" \in i_state
        /\ ("bad" \in i_state) <=> ("bad" \in last.pre.i_state)

\* C15 as stated: a seek of the read cursor (absolute, or relative to
\* begin, current or end) whose target is outside [eback, egptr] gets NPOS
\* from the bitbuf, sets fail, does not set bad and leaves the cursor; a
\* seek whose target is inside the range, both ends included, leaves the
\* cursor exactly at the target.
C15_SeekLaw ==
    /\ SeekOutOfRange
    /\ (LastIsSeekG /\ TargetInRange) => m_gptr = SeekTarget

\* C15 amended: the out-of-range half as stated; a seek whose target is
\* inside the range leaves the cursor exactly at the target and the state
\* as it was, provided eof was not set when the seek was called.
C15_SeekLawUnlessEof ==
    /\ SeekOutOfRange
    /\ (LastIsSeekG /\ TargetInRange /\ ~eof(last.pre.i_state)) =>
          /\ m_gptr = SeekTarget
          /\ i_state = last.pre.i_state

\* An absolute seek to one past the end on a good stream: refused.
C15_Witness ==
    /\ last.stream = "in" /\ last.op = "seekg"
    /\ last.pre.i_state = {}
    /\ last.n = last.pre.bb.egptr + 1
    /\ last.pre.bb.gptr = 3
    /\ m_gptr = 3
    /\ i_state = {"fail"}

\* ------------------------------------------------------------------------
\* Alignment of the read cursor
\* ------------------------------------------------------------------------

LastIsAlignG == last.stream = "in" /\ last.op = "aligng" /\ last.n > 0

\* The least multiple of the alignment that is not below the cursor the
\* last aligng started from.
AlignTarget == ((last.pre.bb.gptr + last.n - 1) \div last.n) * last.n

\* Applying aligng(k) to the current stream twice gives the stream that
\* applying it once gives: cursor, state, gcount and all.
AlignIdempotent ==
    \A k \in Aligns :
        (k > 0 /\ (good(i_state) => i_bitbuf = "bb")) =>
            aligng(aligng(IS, k), k) = aligng(IS, k)

\* C16 as stated: aligng(k) with k > 0 leaves the read cursor at the least
\* multiple of k that is >= the cursor it started from and gcount at 0, and
\* applying it twice is the same as applying it once.
C16_AlignLaw ==
    /\ LastIsAlignG => (m_gptr = AlignTarget /\ m_gcount = 0)
    /\ AlignIdempotent

\* C16 amended: aligng(k) with k > 0 leaves gcount at 0; on a good stream
\* whose least multiple of k >= the cursor is not past egptr the cursor is
\* left at that multiple and the state stays good; on a good stream whose
\* multiple is past egptr the cursor stays and fail is set; on a stream
\* that is not good the cursor and the state stay.  Applying it twice is
\* the same as applying it once.
C16_AlignLawGoodInRange ==
    /\ LastIsAlignG =>
          /\ m_gcount = 0
          /\ (good(last.pre.i_state) /\ AlignTarget <= last.pre.bb.egptr) =>
                (m_gptr = AlignTarget /\ i_state = {})
          /\ (good(last.pre.i_state) /\ AlignTarget > last.pre.bb.egptr) =>
                (m_gptr = last.pre.bb.gptr /\ i_state = {"fail"})
          /\ ~good(last.pre.i_state) =>
                (m_gptr = last.pre.bb.gptr /\ i_state = last.pre.i_state)
    /\ AlignIdempotent

\* aligng(3) on a good stream with the cursor at 4 and a gcount that is not
\* 0: the cursor is left at 6.
C16_Witness ==
    /\ LastIsAlignG
    /\ last.n = 3
    /\ last.pre.i_state = {}
    /\ last.pre.bb.gptr = 4
    /\ last.pre.gcount = 4
    /\ m_gptr = 6
    /\ m_gcount = 0

\* ------------------------------------------------------------------------
\* putback and unget
\* ------------------------------------------------------------------------

LastIsPutback == last.stream = "in" /\ last.op = "putback"

\* The bit to the left of the cursor the last putback started from exists
\* and equals the bit put back.
PrevBitMatches ==
    /\ last.pre.bb.gptr > last.pre.bb.eback
    /\ BitValueAt(last.pre.bb.buffer, last.pre.bb.gptr - 1) = last.v

\* The checked pushback: a matching bit takes the cursor back by one and
\* sets no state bit, anything else leaves the cursor and sets bad.
PutbackChecked ==
    IF PrevBitMatches
    THEN m_gptr = last.pre.bb.gptr - 1 /\ i_state = last.pre.i_state
    ELSE m_gptr = last.pre.bb.gptr /\ "bad" \in i_state

\* C17 as stated: putback(b) takes the read cursor back by exactly one and
\* sets no error bit when the bit at gptr - 1 equals b; otherwise (another
\* bit, or gptr at eback) the cursor stays and bad is set; either way
\* gcount is 0 afterwards and the buffer is as it was.
C17_Putback ==
    LastIsPutback =>
        /\ PutbackChecked
        /\ m_gcount = 0
        /\ m_buffer = last.pre.bb.buffer

\* C17 amended: as stated when eof is not set at the call; when eof is set
\* the cursor stays, fail is set and bad is not newly set, whatever the
\* bit; either way gcount is 0 afterwards and the buffer is as it was.
C17_PutbackUnlessEof ==
    LastIsPutback =>
        /\ ~eof(last.pre.i_state) => PutbackChecked
        /\ eof(last.pre.i_state) =>
              /\ m_gptr = last.pre.bb.gptr
              /\ i_state = last.pre.i_state \cup {"fail"}
        /\ m_gcount = 0
        /\ m_buffer = last.pre.bb.buffer

\* The first bit of 0xb7 is read and the wrong bit, 0, is put back: the
\* cursor stays at 1 and bad is set.
C17_Witness ==
    /\ LastIsPutback
    /\ last.v = {}
    /\ last.pre.i_state = {}
    /\ last.pre.bb.gptr = 1
    /\ last.pre.gcount = 1
    /\ BitAt(last.pre.bb.buffer, 0)
    /\ m_gptr = 1
    /\ m_gcount = 0
    /\ i_state = {"bad"}

LastIsUnget == last.stream = "in" /\ last.op = "unget"

\* C18: unget() takes the read cursor back by exactly one bit and leaves
\* gcount at 0 and the state as it was; when the cursor is at eback it
\* sets fail and leaves the cursor where it is, gcount at 0 too.
C18_Unget ==
    LastIsUnget =>
        /\ m_gcount = 0
        /\ m_buffer = last.pre.bb.buffer
        /\ IF last.pre.bb.gptr > last.pre.bb.eback
           THEN m_gptr = last.pre.bb.gptr - 1 /\ i_state = last.pre.i_state
           ELSE /\ m_gptr = last.pre.bb.gptr
                /\ i_state = last.pre.i_state \cup {"fail"}

\* unget() after three bits were read: the cursor is back at 2.
C18_Witness ==
    /\ LastIsUnget
    /\ last.pre.bb.gptr = 3
    /\ last.pre.gcount = 3
    /\ m_gptr = 2
    /\ m_gcount = 0
    /\ i_state = {}

\* ------------------------------------------------------------------------
\* ignore
\* ------------------------------------------------------------------------

LastIsIgnore == last.stream = "in" /\ last.op = "ignore" /\ last.n >= 0

\* C19: ignore(n), n a count of bits, advances the read cursor by exactly
\* n and leaves gcount at n when n <= in_avail; when n > in_avail it sets
\* eof, leaves gcount at 0 and the cursor where it was.
C19_Ignore ==
    LastIsIgnore =>
        /\ m_buffer = last.pre.bb.buffer
        /\ IF last.n <= AvailBefore
           THEN /\ m_gptr = last.pre.bb.gptr + last.n
                /\ m_gcount = last.n
                /\ i_state = last.pre.i_state
           ELSE /\ m_gptr = last.pre.bb.gptr
                /\ m_gcount = 0
                /\ i_state = last.pre.i_state \cup {"eof"}

\* ignore(7) with 6 bits left after a read of 2: nothing is skipped.
C19_Witness ==
    /\ LastIsIgnore
    /\ last.n = 7
    /\ last.pre.i_state = {}
    /\ last.pre.bb.gptr = 2
    /\ last.pre.bb.egptr = 8
    /\ last.pre.gcount = 2
    /\ m_gptr = 2
    /\ m_gcount = 0
    /\ i_state = {"eof"}

\* ------------------------------------------------------------------------
\* Extraction into a resizable container
\* ------------------------------------------------------------------------

\* For bin >> c the record of the operation holds the element width in n,
\* the size c had in v and the elements of c afterwards in ret.
LastIsExtractContainer == last.stream = "in" /\ last.op = "extract_container"

\* The number of elements the repeat law asks for.
ElementCount ==
    IF last.pre.i_repeat = 0 THEN last.v ELSE last.pre.i_repeat

\* C20: bin >> c, c a resizable container, with repeat m > 0 leaves c with
\* m elements whatever its size was, with repeat 0 leaves c with the size
\* s it had; when that many elements fit in the bits available, element i
\* is the field at cursor + (i - 1) * width and the read cursor is left
\* count * width further on.
C20_RepeatLaw ==
    LastIsExtractContainer =>
        /\ Len(last.ret) = ElementCount
        /\ i_repeat = last.pre.i_repeat
        /\ ElementCount * last.n <= AvailBefore =>
              /\ m_gptr = last.pre.bb.gptr + ElementCount * last.n
              /\ \A i \in 1 .. ElementCount :
                    last.ret[i] =
                        FieldAt(last.pre.bb.buffer,
                                last.pre.bb.gptr + (i - 1) * last.n, last.n)

\* setrepeat(2), then an empty vector of uint8_t is filled from the bytes
\* 0x12 0x34.
C20_Witness ==
    /\ LastIsExtractContainer
    /\ last.pre.i_repeat = 2
    /\ last.v = 0
    /\ last.n = CharBit
    /\ last.pre.bb.gptr = 0
    /\ last.ret = <<BitsOf(18), BitsOf(52)>>
    /\ m_gptr = 2 * CharBit

\* ------------------------------------------------------------------------
\* Extraction into a fixed-size container
\* ------------------------------------------------------------------------

\* For bin >> a the record of the operation holds the element width in n,
\* the size of a in v and the elements of a afterwards in ret.
LastIsExtractArray == last.stream = "in" /\ last.op = "extract_array"

LastIsSetRepeat(stream) == last.stream = stream /\ last.op = "repeat"

\* C22: repeat() is 0 on a new stream, is what the last repeat(r) set, and
\* is left as it was by every other operation on either stream, container
\* extraction and insertion (fitting or overrunning) and scalar operations
\* included; so after a non-zero repeat a resizable container is still
\* given that many elements, and repeat() still is that number afterwards.
C22_RepeatFrame ==
    /\ last.op = "none" => (i_repeat = 0 /\ o_repeat = 0)
    /\ LastIsSetRepeat("in") => i_repeat = last.n
    /\ LastIsSetRepeat("out") => o_repeat = last.n
    /\ (last.op # "none" /\ ~LastIsSetRepeat("in")) =>
          i_repeat = last.pre.i_repeat
    /\ (last.op # "none" /\ ~LastIsSetRepeat("out")) =>
          o_repeat = last.pre.o_repeat
    /\ (LastIsExtractContainer /\ last.pre.i_repeat > 0) =>
          Len(last.ret) = i_repeat

\* setrepeat(2), then a vector of uint8_t is extracted from one byte: the
\* extraction overruns and repeat() still is 2.
C22_Witness ==
    /\ LastIsExtractContainer
    /\ last.pre.i_repeat = 2
    /\ last.n = CharBit
    /\ last.pre.bb.egptr = CharBit
    /\ "eof" \in i_state
    /\ "fail" \in i_state
    /\ i_repeat = 2

\* ------------------------------------------------------------------------
\* Extraction into a constant
\* ------------------------------------------------------------------------

\* bin >> b with b a const bool, a const std::bitset or a const integer:
\* the record of the operation holds the width in n and b in v.
ConstOps == {"extract_const_bool", "extract_const_scalar"}

LastIsExtractConst ==
    last.stream = "in" /\ last.op \in ConstOps /\ last.n <= AvailBefore

\* The field the last extraction was compared against.
FieldBefore == FieldAt(last.pre.bb.buffer, last.pre.bb.gptr, last.n)

LastIsExtractConstContainer ==
    last.stream = "in" /\ last.op = "extract_const_container"

BitsNeeded == Len(last.v) * last.n

\* Every element of the const container equals the field at its position.
AllElementsMatch ==
    \A i \in 1 .. Len(last.v) :
        last.v[i] = FieldAt(last.pre.bb.buffer,
                            last.pre.bb.gptr + (i - 1) * last.n, last.n)

\* C24: bin >> c, c a const container, on a stream that has not failed:
\* one element is read per element of c, whatever repeat() is, and c is
\* not resized; the stream ends not failed iff the elements of c fit in
\* the bits available and each equals the field at its position; when the
\* bits available are fewer than c needs the stream ends with eof and fail
\* set and bad clear; when they are more and every element matches, the
\* cursor is left right after the last element, short of egptr, and the
\* stream is truthy.
C24_ConstContainer ==
    (LastIsExtractConstContainer /\ ~fail(last.pre.i_state)) =>
        /\ Len(last.ret) = Len(last.v)
        /\ i_repeat = last.pre.i_repeat
        /\ ~fail(i_state) <=> (BitsNeeded <= AvailBefore /\ AllElementsMatch)
        /\ BitsNeeded > AvailBefore =>
              ("eof" \in i_state /\ "fail" \in i_state /\ ~bad(i_state))
        /\ BitsNeeded <= AvailBefore =>
              m_gptr = last.pre.bb.gptr + BitsNeeded
        /\ (BitsNeeded < AvailBefore /\ AllElementsMatch) =>
              (m_gptr < m_egptr /\ truthy(i_state))

\* The const vector {0x12} is compared with the first byte of 0x12 0x34
\* while repeat() is 2: one element is read, the second byte stays unread.
C24_Witness ==
    /\ LastIsExtractConstContainer
    /\ last.pre.i_state = {}
    /\ last.pre.i_repeat = 2
    /\ last.v = <<BitsOf(18)>>
    /\ last.n = CharBit
    /\ last.pre.bb.gptr = 0
    /\ m_gptr = CharBit
    /\ m_egptr = 2 * CharBit
    /\ i_state = {}

\* ------------------------------------------------------------------------
\* Container extraction that overruns
\* ------------------------------------------------------------------------

LastIsExtractSequence ==
    last.stream = "in" /\ last.op \in {"extract_container", "extract_array"}

\* m: the number of elements the last container extraction had to deliver.
ElementsWanted ==
    IF last.op = "extract_container" THEN ElementCount ELSE last.v

\* k: the number of whole elements that were available.
ElementsFitting == AvailBefore \div last.n

\* C25: a container extraction of m elements of which only k < m fit
\* before egptr leaves the container with m elements, the first k the
\* fields of the stream in order and the others zero; eof and fail are
\* set, bad is not set by it, and the read cursor is left right after
\* element k, the trailing bits too few for an element unread.
C25_ContainerOverrun ==
    (LastIsExtractSequence /\ ElementsFitting < ElementsWanted) =>
        /\ Len(last.ret) = ElementsWanted
        /\ \A i \in 1 .. ElementsWanted :
              last.ret[i] =
                  IF i <= ElementsFitting
                  THEN FieldAt(last.pre.bb.buffer,
                               last.pre.bb.gptr + (i - 1) * last.n, last.n)
                  ELSE {}
        /\ "eof" \in i_state
        /\ "fail" \in i_state
        /\ bad(i_state) <=> bad(last.pre.i_state)
        /\ m_gptr = last.pre.bb.gptr + ElementsFitting * last.n

\* setrepeat(2), then a vector of uint8_t is extracted from the one byte
\* 0x12: the second element is 0.
C25_Witness ==
    /\ LastIsExtractSequence
    /\ last.op = "extract_container"
    /\ last.pre.i_repeat = 2
    /\ last.pre.i_state = {}
    /\ last.n = CharBit
    /\ last.pre.bb.gptr = 0
    /\ last.pre.bb.egptr = CharBit
    /\ last.ret = <<BitsOf(18), {}>>
    /\ m_gptr = CharBit
    /\ i_state = {"eof", "fail"}

\* ------------------------------------------------------------------------
\* Container insertion
\* ------------------------------------------------------------------------

\* bout << c: the record of the operation holds the element width in n
\* and c in v.
LastIsInsertContainer == last.stream = "out" /\ last.op = "insert_container"

\* The number of elements the claim has emitted: repeat() when that is not
\* 0, the whole container otherwise.
ElementsEmitted ==
    IF last.pre.o_repeat = 0 THEN Len(last.v) ELSE last.pre.o_repeat

\* C26: bout << c on a good stream emits repeat() elements of c when
\* repeat() is not 0 (and c has that many) and all of c when it is 0: when
\* they fit, the put cursor is left (elements emitted) * width further on.
C26_InsertHonoursRepeat ==
    (/\ LastIsInsertContainer
     /\ good(last.pre.o_state)
     /\ ElementsEmitted <= Len(last.v)
     /\ ElementsEmitted * last.n <= RoomBefore) =>
        m_pptr = last.pre.bb.pptr + ElementsEmitted * last.n

\* ------------------------------------------------------------------------
\* Claims about a sequence of fields (SpecSequence)
\* ------------------------------------------------------------------------

\* The number of bits in the first i - 1 of the widths.
RECURSIVE BitsBefore(_, _)
BitsBefore(widths, i) ==
    IF i <= 1 THEN 0 ELSE widths[i - 1] + BitsBefore(widths, i - 1)

TotalBits(widths) == BitsBefore(widths, Len(widths) + 1)

WidthsOf(fields) == [i \in DOMAIN fields |-> fields[i].w]

\* op is a chain of insertions from bit 0 on a good stream, of fields
\* whose values fit their widths and that all lie inside the region.
InsertFromZero(op) ==
    /\ op.op = "insert_fields"
    /\ good(op.pre.o_state)
    /\ op.pre.bb.pptr = 0
    /\ TotalBits(WidthsOf(op.v)) <= op.pre.bb.epptr
    /\ \A i \in DOMAIN op.v : op.v[i].v \subseteq 0 .. (op.v[i].w - 1)

\* op is a chain of extractions from bit 0 that all lie inside the region.
ExtractFromZero(op) ==
    /\ op.op = "extract_fields"
    /\ op.pre.bb.gptr = 0
    /\ TotalBits(op.v) <= op.pre.bb.egptr

\* Every field of the chain, with the bits to its left in its first byte,
\* fits the bitfield type.
FieldsFitting(widths) ==
    \A i \in DOMAIN widths :
        (BitsBefore(widths, i) % CharBit) + widths[i] <= FieldWidth

\* The region holds the fields of the chain one after the other from bit
\* 0, each most significant bit first.
Concatenated(buffer, fields) ==
    \A i \in DOMAIN fields :
        FieldAt(buffer, BitsBefore(WidthsOf(fields), i), fields[i].w)
            = fields[i].v

\* The sequence round trip for the chains admitted by the condition ok.
SequenceLaw(ok(_)) ==
    /\ (InsertFromZero(last') /\ ok(WidthsOf(last'.v))) =>
          /\ Concatenated(m_buffer', last'.v)
          /\ m_pptr' = TotalBits(WidthsOf(last'.v))
          /\ \A k \in Positions(m_buffer) :
                k >= m_pptr' => (BitAt(m_buffer', k) <=> BitAt(m_buffer, k))
    /\ (/\ InsertFromZero(last) /\ ok(WidthsOf(last.v))
        /\ last'.op = "extract_fields") =>
          last'.ret = [i \in DOMAIN last.v |-> last.v[i].v]
    /\ (/\ ExtractFromZero(last) /\ ok(last.v)
        /\ last'.op = "insert_fields") =>
          m_buffer' = m_buffer

AnyWidths(widths) == TRUE

\* C27: a chain of insertions from bit 0 of fields of any widths, with
\* values that fit, leaves the region holding the fields one after the
\* other, most significant bit first, and the bits after them as they
\* were; extracting with the same widths from bit 0 returns the values
\* inserted; and inserting from bit 0 the fields just extracted from a
\* region leaves its bytes as they were.
C27_SequenceRoundTrip == [][SequenceLaw(AnyWidths)]_vars

\* The same statement for the chains in which every field, with the bits
\* to its left in its first byte, fits the bitfield type.
C27_SequenceRoundTripFitting == [][SequenceLaw(FieldsFitting)]_vars

\* ------------------------------------------------------------------------
\* Reading at the end of the region
\* ------------------------------------------------------------------------

\* The last operation started with the read cursor at egptr.
StartedAtEnd == last.pre.bb.gptr = last.pre.bb.egptr

TruthinessLaw(state) ==
    /\ truthy(state) <=> ~fail(state)
    /\ fail(state) <=> ("fail" \in state \/ "bad" \in state)
    /\ good(state) <=> (state \cap StateBits = {})
    /\ state = {"eof"} => (truthy(state) /\ ~good(state))

\* C29: in every reachable state, for the input and the output stream,
\* operator bool and operator void* give !fail(), fail() is true iff the
\* fail bit or the bad bit is set, good() is true iff no state bit is set,
\* and a stream whose only bit is eof is truthy and not good.
C29_Truthiness == TruthinessLaw(i_state) /\ TruthinessLaw(o_state)

\* A read of the whole region has set eof alone: the stream is truthy and
\* not good.
C29_Witness ==
    /\ LastIsRead
    /\ last.n = AvailBefore
    /\ last.pre.i_state = {}
    /\ i_state = {"eof"}
    /\ truthy(i_state)
    /\ ~good(i_state)

\* ------------------------------------------------------------------------
\* get()
\* ------------------------------------------------------------------------

LastIsGet == last.stream = "in" /\ last.op = "get"

\* C30: get() with a bit available returns the bit at the read cursor,
\* leaves the cursor one further on, gcount at 1 and gvalue at that bit;
\* with no bit available it sets fail and eof, leaves gcount at 0 and the
\* cursor where it was.
C30_GetOneBit ==
    LastIsGet =>
        IF AvailBefore > 0
        THEN /\ last.ret = BitValueAt(last.pre.bb.buffer, last.pre.bb.gptr)
             /\ m_gvalue = last.ret
             /\ m_gptr = last.pre.bb.gptr + 1
             /\ m_gcount = 1
        ELSE /\ i_state = last.pre.i_state \cup {"fail", "eof"}
             /\ m_gptr = last.pre.bb.gptr
             /\ m_gcount = 0

\* get() at the end of the region, after an ignore(8) that left gcount at
\* 8: fail and eof.
C30_Witness ==
    /\ LastIsGet
    /\ AvailBefore = 0
    /\ last.pre.i_state = {}
    /\ last.pre.gcount = CharBit
    /\ i_state = {"eof", "fail"}
    /\ m_gcount = 0
    /\ m_gptr = m_egptr

\* ------------------------------------------------------------------------
\* Construction
\* ------------------------------------------------------------------------

\* No operation has been performed on the streams yet.
NewlyConstructed == last.op = "none"

\* What the claim says of the state mask a handle gives a new stream.
InitialStateLaw(state, handle) ==
    /\ good(state) <=> handle # "null"
    /\ handle = "null" => bad(state)

\* C31: a newly constructed stream is good iff it was given a non-null
\* bitbuf, and has bad set otherwise; gcount, gvalue and repeat are 0.
C31_InitialState ==
    NewlyConstructed =>
        /\ InitialStateLaw(i_state, i_bitbuf)
        /\ InitialStateLaw(o_state, o_bitbuf)
        /\ m_gcount = 0
        /\ m_gvalue = {}
        /\ i_repeat = 0
        /\ o_repeat = 0

\* An istream constructed on a null bitbuf and an ostream constructed on
\* a bitbuf.
C31_Witness ==
    /\ NewlyConstructed
    /\ i_bitbuf = "null"
    /\ i_state = {"bad"}
    /\ o_bitbuf = "bb"
    /\ o_state = {}

\* ------------------------------------------------------------------------
\* Claims about a seek of the bitbuf (SpecBuffer)
\* ------------------------------------------------------------------------

\* For a seek of the bitbuf the record of the operation holds the offset
\* or the position in n, the direction in way and the open mode in v.
LastIsBufferSeek ==
    last.stream = "buf" /\ last.op \in {"pubseekoff", "pubseekpos"}

\* The targets the last seek of the bitbuf had for the read cursor and for
\* the write cursor.
GetTarget ==
    CASE last.op = "pubseekpos" -> last.n
      [] last.way = "beg" -> last.pre.bb.eback + last.n
      [] last.way = "cur" -> last.pre.bb.gptr + last.n
      [] OTHER -> last.pre.bb.egptr + last.n

PutTarget ==
    CASE last.op = "pubseekpos" -> last.n
      [] last.way = "beg" -> last.pre.bb.pbase + last.n
      [] last.way = "cur" -> last.pre.bb.pptr + last.n
      [] OTHER -> last.pre.bb.epptr + last.n

\* C32: a seek of the bitbuf moves each selected cursor to its target iff
\* the target lies within that cursor's own bounds and leaves it where it
\* was otherwise, whatever happens to the other cursor; a cursor that is
\* not selected stays.
C32_IndependentCursors ==
    LastIsBufferSeek =>
        /\ m_gptr =
              IF /\ "in" \in last.v
                 /\ last.pre.bb.eback <= GetTarget
                 /\ GetTarget <= last.pre.bb.egptr
              THEN GetTarget ELSE last.pre.bb.gptr
        /\ m_pptr =
              IF /\ "out" \in last.v
                 /\ last.pre.bb.pbase <= PutTarget
                 /\ PutTarget <= last.pre.bb.epptr
              THEN PutTarget ELSE last.pre.bb.pptr

\* A seek of both cursors one bit on from where they are, with the read
\* cursor at egptr and the write cursor at 3: the write cursor moves, the
\* read cursor stays.
C32_Witness ==
    /\ LastIsBufferSeek
    /\ last.op = "pubseekoff"
    /\ last.v = {"in", "out"}
    /\ last.way = "cur"
    /\ last.n = 1
    /\ last.pre.bb.gptr = last.pre.bb.egptr
    /\ last.pre.bb.pptr = 3
    /\ m_gptr = m_egptr
    /\ m_pptr = 4

\* ------------------------------------------------------------------------
\* Transfers of no bits
\* ------------------------------------------------------------------------

\* C33: read(value, 0) and write(value, 0) on a good stream transfer no
\* bit: no cursor moves, the buffer is as it was, and neither fail nor bad
\* is set; gcount is 0 after the read.
C33_ZeroWidth ==
    /\ (last.stream = "in" /\ last.op = "read" /\ last.n = 0
           /\ good(last.pre.i_state)) =>
          /\ BB = last.pre.bb
          /\ m_gcount = 0
          /\ ~fail(i_state)
    /\ (last.stream = "out" /\ last.op = "write" /\ last.n = 0
           /\ good(last.pre.o_state)) =>
          /\ BB = last.pre.bb
          /\ ~fail(o_state)

\* The half of C33 that is about read(value, 0).
C33_ZeroWidthRead ==
    (last.stream = "in" /\ last.op = "read" /\ last.n = 0
        /\ good(last.pre.i_state)) =>
       /\ BB = last.pre.bb
       /\ m_gcount = 0
       /\ ~fail(i_state)

\* ------------------------------------------------------------------------
\* unget and seekg with eof set
\* ------------------------------------------------------------------------

\* C34: unget() on a stream with eof set clears eof and attempts the
\* retreat: with the cursor beyond eback the cursor is left one bit back
\* and fail is not set by it; with the cursor at eback the cursor stays
\* and fail is set.
C34_UngetClearsEof ==
    (LastIsUnget /\ eof(last.pre.i_state)) =>
        /\ ~eof(i_state)
        /\ IF last.pre.bb.gptr > last.pre.bb.eback
           THEN /\ m_gptr = last.pre.bb.gptr - 1
                /\ ("fail" \in i_state) <=> ("fail" \in last.pre.i_state)
           ELSE /\ m_gptr = last.pre.bb.gptr
                /\ "fail" \in i_state

\* C35: seekg (absolute or relative) called while eof is set leaves the
\* read cursor where it is and sets fail, also when the target lies in
\* [eback, egptr]; from the same cursor position at egptr with eof not
\* set, as clear() leaves the stream, a seekg to a target in range moves
\* the cursor there.
C35_SeekAtEof ==
    /\ (LastIsSeekG /\ eof(last.pre.i_state)) =>
          /\ m_gptr = last.pre.bb.gptr
          /\ i_state = last.pre.i_state \cup {"fail"}
    /\ (LastIsSeekG /\ ~eof(last.pre.i_state) /\ StartedAtEnd
           /\ TargetInRange) =>
          /\ m_gptr = SeekTarget
          /\ i_state = last.pre.i_state

\* A read of the whole region has set eof; seekg(0) is refused.
C35_Witness ==
    /\ LastIsSeekG
    /\ last.op = "seekg"
    /\ last.n = 0
    /\ last.pre.i_state = {"eof"}
    /\ StartedAtEnd
    /\ last.pre.gcount = last.pre.bb.egptr
    /\ m_gptr = m_egptr
    /\ i_state = {"eof", "fail"}

\* ------------------------------------------------------------------------
\* Positioning of the write cursor
\* ------------------------------------------------------------------------

PutPositioningOps == {"seekp", "seekp_off", "alignp", "ignore"}

LastIsPutPositioning == last.stream = "out" /\ last.op \in PutPositioningOps

\* C36: seekp(position), seekp(offset, dir), alignp(k) and ignore(n) of
\* the ostream leave the read cursor where it was.
C36_PutPositioningFrame ==
    LastIsPutPositioning => m_gptr = last.pre.bb.gptr

\* The frame for the two operations that seek with the open mode out.
C36_PutPositioningFrameRelative ==
    (LastIsPutPositioning /\ last.op \in {"seekp_off", "ignore"}) =>
        m_gptr = last.pre.bb.gptr

\* ------------------------------------------------------------------------
\* peek() and get() at the end of the region
\* ------------------------------------------------------------------------

LastIsPeek == last.stream = "in" /\ last.op = "peek"

\* C37: peek() with the read cursor at egptr sets eof and does not set
\* fail, leaves gcount at 0 and the read cursor at egptr.
C37_PeekAtEnd ==
    (LastIsPeek /\ StartedAtEnd) =>
        /\ i_state = last.pre.i_state \cup {"eof"}
        /\ m_gcount = 0
        /\ m_gptr = m_egptr

\* The state and gcount half of C37.
C37_PeekAtEndState ==
    (LastIsPeek /\ StartedAtEnd) =>
        /\ i_state = last.pre.i_state \cup {"eof"}
        /\ m_gcount = 0

\* What get() and read(value, 1) leave of the stream: read cursor, gcount,
\* gvalue and state bits.
Observed(s) == [gptr |-> s.bb.gptr, gcount |-> s.gcount,
                gvalue |-> s.gvalue, state |-> s.state]

\* C38: from the same state of the stream, get() and read(value, 1) leave
\* the same read cursor, gcount, gvalue and state bits, whatever the
\* number of bits left.
C38_GetLikeRead ==
    i_bitbuf = "bb" => Observed(get(IS)) = Observed(read(IS, {}, 1).s)

\* The part of C38 with at least two bits left.
C38_GetLikeReadInside ==
    (i_bitbuf = "bb" /\ in_avail(BB) >= 2) =>
        Observed(get(IS)) = Observed(read(IS, {}, 1).s)

\* ------------------------------------------------------------------------
\* The bytes a field occupies
\* ------------------------------------------------------------------------

\* The last operation read or wrote a field of n > 0 bits that fits.
LastIsFieldAccess ==
    \/ /\ last.op = "read" /\ last.n > 0
       /\ last.pre.bb.gptr + last.n <= last.pre.bb.egptr
    \/ /\ last.op = "write" /\ last.n > 0 /\ good(last.pre.o_state)
       /\ last.pre.bb.pptr + last.n <= last.pre.bb.epptr

\* The cursor the last field access started from.
AccessCursor ==
    IF last.op = "read" THEN last.pre.bb.gptr ELSE last.pre.bb.pptr

\* The bytes holding bits c .. c+n-1.
SpanBytes(c, n) == (c \div CharBit) .. ((c + n - 1) \div CharBit)

\* The region with every byte outside span set to zero.
OnlySpan(buffer, span) ==
    [k \in DOMAIN buffer |-> IF k \in span THEN buffer[k] ELSE {}]

\* C39: reading or writing a field of n > 0 bits at cursor c processes
\* exactly the bytes floor(c/8) .. floor((c+n-1)/8): byte_count is the
\* number of bytes the field spans, a write leaves every other byte as it
\* was, and a read returns what it would with every other byte zeroed.
C39_NoAccessPastField ==
    LastIsFieldAccess =>
        LET c == AccessCursor
            span == SpanBytes(c, last.n)
        IN /\ byte_count_of(last.n, c) = Cardinality(span)
           /\ bytes_processed(last.n, c) = span
           /\ span \subseteq DOMAIN last.pre.bb.buffer
           /\ \A k \in DOMAIN m_buffer \ span :
                 m_buffer[k] = last.pre.bb.buffer[k]
           /\ last.op = "read" =>
                 last.ret = xsprocessn_nobump({}, last.n, c,
                               last.pre.bb.egptr,
                               OnlySpan(last.pre.bb.buffer, span),
                               "get").value

\* A write of more than a byte that starts and ends inside bytes and
\* changes the region.
C39_Witness ==
    /\ LastIsFieldAccess
    /\ last.op = "write"
    /\ last.n > CharBit
    /\ AccessCursor % CharBit # 0
    /\ (AccessCursor + last.n) % CharBit # 0
    /\ m_buffer # last.pre.bb.buffer

\* ------------------------------------------------------------------------
\* The assertion in the earlier xsgetn (SpecLegacy)
\* ------------------------------------------------------------------------

\* The last operation was an xsgetn of size > 0 bits that were available.
LastIsLegacyGet ==
    /\ last.op = "xsgetn"
    /\ last.n > 0
    /\ last.n <= last.pre.bb.egptr - last.pre.bb.gptr

\* The offset of the get pointer in its byte when the last xsgetn began.
LegacyOff == last.pre.bb.gptr % CharBit

\* C40: for every size > 0 and every offset 0..7 the assertion of xsgetn
\* holds: shiftAmount is (8 - ((size + off) mod 8)) mod 8, oldShiftAmount,
\* computed in size_t with wrap-around, is (16 - off - size) mod 8 and
\* equal to it, and the branch 'oldShiftAmount > CHAR_BIT' is not taken.
C40_LegacyAssertion ==
    LastIsLegacyGet =>
        /\ last.ret.asserted
        /\ ~last.ret.corrected
        /\ last.ret.shiftAmount =
              (CharBit - ((last.n + LegacyOff) % CharBit)) % CharBit
        /\ last.ret.oldShiftAmount =
              BitsOf((2 * CharBit - LegacyOff - last.n) % CharBit)
        /\ last.ret.oldShiftAmount = BitsOf(last.ret.shiftAmount)

\* An xsgetn for which 16 - off - size is negative before it wraps, with a
\* shift that is not zero.
C40_Witness ==
    /\ LastIsLegacyGet
    /\ last.n + LegacyOff > 2 * CharBit
    /\ last.ret.shiftAmount > 0
    /\ last.ret.ret = last.n

============================================================================
